---- MODULE Spec2Model ----
(***************************************************************************)
(* Model of the lumen-digest centroid classifier                           *)
(* (backend/app/logic/classifier.py) and of the endpoints of               *)
(* backend/app/main.py that drive it.                                      *)
(*                                                                         *)
(* Cosine scores, thresholds and margins are integers in hundredths        *)
(* (0.40 is 40, the -1.0 sentinel is -100).  Python's None is the string   *)
(* "None" for string-valued fields and the empty sequence for optional     *)
(* numbers (Some(x) is <<x>>).  A dict is a sequence of entries with       *)
(* distinct ids, in insertion order, as Python iterates it.                *)
(***************************************************************************)
EXTENDS Integers, Sequences, FiniteSets, TLC

VARIABLES taxFile, cacheFile, classifier_engine, changed, last, loader,
          handlers, singleton, article_table, feed, runs

vars == <<taxFile, cacheFile, classifier_engine, changed, last, loader,
          handlers, singleton, article_table, feed, runs>>

---------------------------------------------------------------------------
(* Bounds of the model.                                                    *)

MaxMtime == 2
MaxLen == 2
MaxBatch == 2
MaxTokens == 5
MaxPhrase == 3
MaxText == 4
MaxDocs == 3
MaxCats == 2
MaxScored == 3
MaxEntries == 2

---------------------------------------------------------------------------
(* Values.                                                                 *)

None == "None"
NoneNum == <<>>
Some(x) == <<x>>

DEFAULT_TAXONOMY_PATH == "taxonomy.json"
Models == {"mpnet", "MiniLM"}
Devices == {"cpu"}
CachePaths == {None, "centroids.pt"}

SentinelScore == -100
Scores == {-100, -10, 0, 10, 40}
Thresholds == {-150, -100, 36, 50}
MarginThresholds == {7, 20}
MinLens == {0, 2}
LowBuckets == {"other"}
TextLens == 0..MaxLen

RECURSIVE SeqToSet(_)
SeqToSet(s) == IF s = <<>> THEN {} ELSE {Head(s)} \cup SeqToSet(Tail(s))

---------------------------------------------------------------------------
(* The taxonomy files the environment may put at the taxonomy path.  A     *)
(* node is a record of its id (None when absent), its English label (None  *)
(* when absent) and its anchors.  The JSON value of "anchors" is a list    *)
(* (anchors_type "list", the list in anchors), a language map ("dict", its *)
(* "en" list in anchors and its "fr" list in fr), or something else: a     *)
(* string ("str"), a number ("num") or null ("null").                      *)

Node(id, label, anchors) ==
    [id |-> id, label |-> label, anchors_type |-> "list", anchors |-> anchors,
     fr |-> <<>>, level |-> None, subcategories |-> <<>>]

LevelNode(id, label, anchors, level, subcategories) ==
    [id |-> id, label |-> label, anchors_type |-> "list", anchors |-> anchors,
     fr |-> <<>>, level |-> level, subcategories |-> subcategories]

MapNode(id, label, en, fr) ==
    [id |-> id, label |-> label, anchors_type |-> "dict", anchors |-> en,
     fr |-> fr, level |-> None, subcategories |-> <<>>]

OddNode(id, label, anchors_type) ==
    [id |-> id, label |-> label, anchors_type |-> anchors_type, anchors |-> <<>>,
     fr |-> <<>>, level |-> None, subcategories |-> <<>>]

(* legacy shape: a flat "taxonomy" list                                    *)
Legacy(version, nodes) ==
    [version |-> version, shape |-> "taxonomy", classification_level |-> None,
     nodes |-> nodes]

(* "categories" shape: categories with subcategories and an optional       *)
(* modeling.classification_level                                           *)
Nested(version, classification_level, nodes) ==
    [version |-> version, shape |-> "categories",
     classification_level |-> classification_level, nodes |-> nodes]

TaxSportsFinance ==
    Legacy("v1", << Node("sports", "Sport", <<"championship game">>),
                    Node("finance", "Finance", <<"interest rate hike">>) >>)

TaxSportsOnly ==
    Legacy("v1", << Node("sports", "Sport", <<"championship game">>) >>)

TaxReworded ==
    Legacy("v2", << Node("finance", "Economy", <<"stock market rally">>),
                    Node("sports", "Sport", <<"season opener">>) >>)

TaxThree ==
    Legacy(None, << Node("sports", None, <<"championship game">>),
                    Node("finance", "Finance", <<>>),
                    Node(None, "Orphan", <<"no id">>),
                    Node("politics", "Politics", <<"election">>) >>)

TaxNested ==
    Nested("v2", "L2",
           << LevelNode("economy", "Economy", <<"markets">>, "L1",
                        << LevelNode("finance", "Finance", <<"stock market rally">>,
                                     "L2", <<>>) >>),
              LevelNode("sports", "Sport", <<"season opener">>, "L2", <<>>) >>)

TaxEmpty == Legacy(None, <<>>)

Taxonomies ==
    {TaxSportsFinance, TaxSportsOnly, TaxReworded, TaxThree, TaxNested, TaxEmpty}

(* files whose anchors are language maps, and files in which a node's      *)
(* anchors are neither a list nor a language map                           *)
TaxLanguageMaps ==
    Legacy("v1", << MapNode("sports", "Sport", <<"championship game">>,
                            <<"match de championnat">>),
                    MapNode("finance", "Finance", <<>>, <<>>) >>)

TaxStringAnchors ==
    Legacy("v1", << Node("sports", "Sport", <<"championship game">>),
                    OddNode("finance", "Finance", "str"),
                    Node("politics", "Politics", <<"election">>) >>)

TaxNullAnchors ==
    Legacy("v2", << OddNode("finance", "Finance", "null"),
                    Node("sports", "Sport", <<"season opener">>) >>)

TaxNumberNoId ==
    Legacy("v2", << OddNode(None, "Orphan", "num"),
                    Node("sports", "Sport", <<"season opener">>) >>)

AnchorTaxonomies ==
    {TaxSportsFinance, TaxLanguageMaps, TaxStringAnchors, TaxNullAnchors,
     TaxNumberNoId}

---------------------------------------------------------------------------
(* Embedding.  The sentence embedder is a deterministic function of the    *)
(* model and the texts; the centroid of a prototype text set is kept as    *)
(* the term that determines it.                                            *)

Centroid(model, prototype_texts) == [model |-> model, texts |-> prototype_texts]

(* dict[key] = value on an insertion-ordered dict                          *)
RECURSIVE DictSet(_, _)
DictSet(d, e) ==
    IF d = <<>> THEN <<e>>
    ELSE IF Head(d).id = e.id THEN <<e>> \o Tail(d)
    ELSE <<Head(d)>> \o DictSet(Tail(d), e)

DictKeys(d) == {d[i].id : i \in 1..Len(d)}

(* The items load_taxonomy embeds: for the "categories" shape every        *)
(* category and subcategory of the classification level (all of them when  *)
(* no level is set), else the "taxonomy" list.                             *)
RECURSIVE FilterLevel(_, _)
FilterLevel(nodes, classification_level) ==
    IF nodes = <<>> THEN <<>>
    ELSE (IF classification_level = None \/ Head(nodes).level = classification_level
          THEN <<Head(nodes)>> ELSE <<>>)
         \o FilterLevel(Tail(nodes), classification_level)

RECURSIVE CategoryItems(_, _)
CategoryItems(nodes, classification_level) ==
    IF nodes = <<>> THEN <<>>
    ELSE FilterLevel(<<Head(nodes)>>, classification_level)
         \o FilterLevel(Head(nodes).subcategories, classification_level)
         \o CategoryItems(Tail(nodes), classification_level)

Items(taxonomy_data) ==
    IF taxonomy_data.shape = "categories"
    THEN CategoryItems(taxonomy_data.nodes, taxonomy_data.classification_level)
    ELSE taxonomy_data.nodes

(* anchors as the loop holds it when it is a list: the list itself, or    *)
(* anchors.get("en", []) + anchors.get("fr", []) of a language map         *)
AnchorList(category) ==
    IF category.anchors_type = "dict" THEN category.anchors \o category.fr
    ELSE category.anchors

(* `[label] + anchors` raises TypeError: the node has an id and its        *)
(* anchors are a string, a number or None                                  *)
Raises(category) ==
    category.id # None /\ category.anchors_type \notin {"list", "dict"}

(* One turn of the loop over items in load_taxonomy, for an item that does *)
(* not raise.                                                              *)
LoadItem(cats, category, model) ==
    IF category.id = None THEN cats
    ELSE LET label == IF category.label = None THEN category.id ELSE category.label
             prototype_texts == <<label>> \o AnchorList(category)
         IN  DictSet(cats, [id |-> category.id,
                            label |-> label,
                            anchors |-> AnchorList(category),
                            centroid |-> Centroid(model, prototype_texts)])

(* the loop raises at one of the items *)
RECURSIVE LoopRaises(_)
LoopRaises(items) ==
    items # <<>> /\ (Raises(Head(items)) \/ LoopRaises(Tail(items)))

(* self.categories as the loop leaves it: at its end, or at the item that  *)
(* raises                                                                  *)
RECURSIVE LoadItems(_, _, _)
LoadItems(cats, items, model) ==
    IF items = <<>> \/ Raises(Head(items)) THEN cats
    ELSE LoadItems(LoadItem(cats, Head(items), model), Tail(items), model)

(* the number of items the loop embeds                                     *)
RECURSIVE EncodedItems(_)
EncodedItems(items) ==
    IF items = <<>> \/ Raises(Head(items)) THEN 0
    ELSE (IF Head(items).id = None THEN 0 ELSE 1) + EncodedItems(Tail(items))

---------------------------------------------------------------------------
(* Classification.  A text is what clean_text returns: its length and its  *)
(* embedding, the latter given by the cosine it has with each centroid.    *)

CentroidsOf(cats) == {cats[i].centroid : i \in 1..Len(cats)}

TextsFor(cats, lens, scores) ==
    {[len |-> n, cos |-> c] : n \in lens, c \in [CentroidsOf(cats) -> scores]}

cos_sim(text, centroid) == text.cos[centroid]

(* The loop of classify_text_with_scores over self.categories.items().     *)
ScanStep(acc, cat_id, score) ==
    IF score > acc.highest_score
    THEN [best_category_id |-> cat_id, highest_score |-> score,
          second_score |-> acc.highest_score]
    ELSE IF score > acc.second_score
    THEN [acc EXCEPT !.second_score = score]
    ELSE acc

RECURSIVE Scan(_, _, _)
Scan(acc, cats, text) ==
    IF cats = <<>> THEN acc
    ELSE Scan(ScanStep(acc, Head(cats).id, cos_sim(text, Head(cats).centroid)),
              Tail(cats), text)

ScanInit == [best_category_id |-> None,
             highest_score |-> SentinelScore,
             second_score |-> SentinelScore]

(* the early return for short text                                         *)
(* variant: only `not text`, the length comparison forgotten *)
IsShortEmptyOnly(text, min_len) == text.len = 0

IsShort(text, min_len) == text.len = 0 \/ text.len < min_len

ShortResult(low_bucket) ==
    [category_id |-> low_bucket, confidence |-> 0, needs_review |-> TRUE,
     reason |-> "no_text", runner_up_confidence |-> NoneNum, margin |-> NoneNum]

(* margin, accept and the two returns after the loop                       *)
(* variant: `if not accept`, without `or best_category_id is None` *)
DecideWithoutNoneCheck(acc, threshold, margin_threshold, low_bucket) ==
    LET margin == IF acc.second_score >= 0
                  THEN Some(acc.highest_score - acc.second_score) ELSE NoneNum
        accept == \/ acc.highest_score >= threshold
                  \/ (margin # NoneNum /\ margin[1] >= margin_threshold)
        runner == IF acc.second_score < 0 THEN NoneNum ELSE Some(acc.second_score)
    IN  IF ~accept
        THEN [category_id |-> low_bucket, confidence |-> acc.highest_score,
              needs_review |-> TRUE, reason |-> "low_confidence",
              runner_up_confidence |-> runner, margin |-> margin]
        ELSE [category_id |-> acc.best_category_id, confidence |-> acc.highest_score,
              needs_review |-> FALSE, reason |-> "ok",
              runner_up_confidence |-> runner, margin |-> margin]

(* variant: the threshold test turned round *)
DecideThresholdBelow(acc, threshold, margin_threshold, low_bucket) ==
    LET margin == IF acc.second_score >= 0
                  THEN Some(acc.highest_score - acc.second_score) ELSE NoneNum
        accept == \/ acc.highest_score <= threshold
                  \/ (margin # NoneNum /\ margin[1] >= margin_threshold)
        runner == IF acc.second_score < 0 THEN NoneNum ELSE Some(acc.second_score)
    IN  IF ~accept \/ acc.best_category_id = None
        THEN [category_id |-> low_bucket, confidence |-> acc.highest_score,
              needs_review |-> TRUE, reason |-> "low_confidence",
              runner_up_confidence |-> runner, margin |-> margin]
        ELSE [category_id |-> acc.best_category_id, confidence |-> acc.highest_score,
              needs_review |-> FALSE, reason |-> "ok",
              runner_up_confidence |-> runner, margin |-> margin]

Decide(acc, threshold, margin_threshold, low_bucket) ==
    LET margin == IF acc.second_score >= 0
                  THEN Some(acc.highest_score - acc.second_score) ELSE NoneNum
        accept == \/ acc.highest_score >= threshold
                  \/ (margin # NoneNum /\ margin[1] >= margin_threshold)
        runner == IF acc.second_score < 0 THEN NoneNum ELSE Some(acc.second_score)
    IN  IF ~accept \/ acc.best_category_id = None
        THEN [category_id |-> low_bucket, confidence |-> acc.highest_score,
              needs_review |-> TRUE, reason |-> "low_confidence",
              runner_up_confidence |-> runner, margin |-> margin]
        ELSE [category_id |-> acc.best_category_id, confidence |-> acc.highest_score,
              needs_review |-> FALSE, reason |-> "ok",
              runner_up_confidence |-> runner, margin |-> margin]

(* classify_text_with_scores: what it returns and how many times it calls  *)
(* self.model.encode                                                       *)
(* variant: the text is embedded before the length check *)
classify_encode_first(cats, text, threshold, margin_threshold, min_len, low_bucket) ==
    IF IsShort(text, min_len)
    THEN [result |-> ShortResult(low_bucket), encodes |-> 1]
    ELSE [result |-> Decide(Scan(ScanInit, cats, text), threshold, margin_threshold,
                            low_bucket),
          encodes |-> 1]

classify_text_with_scores(cats, text, threshold, margin_threshold, min_len, low_bucket) ==
    IF IsShort(text, min_len)
    THEN [result |-> ShortResult(low_bucket), encodes |-> 0]
    ELSE [result |-> Decide(Scan(ScanInit, cats, text), threshold, margin_threshold,
                            low_bucket),
          encodes |-> 1]

---------------------------------------------------------------------------
(* The centroid cache file and load_taxonomy.                              *)

Payload(model_name, model, path, mtime, version, device, cats) ==
    [model_name |-> model_name, model |-> model, taxonomy_path |-> path,
     taxonomy_mtime |-> mtime, taxonomy_version |-> version,
     device |-> device, categories |-> cats]

(* payload.get("model_name") or payload.get("model")                       *)
PayloadModel(payload) ==
    IF payload.model_name # None THEN payload.model_name ELSE payload.model

(* variants: cache_ok without the model test, without the device test *)
CacheOkNoModel(self, payload, taxonomy_mtime, taxonomy_version) ==
    /\ payload.taxonomy_path \in {None, self.taxonomy_path}
    /\ payload.taxonomy_mtime \in {NoneNum, Some(taxonomy_mtime)}
    /\ payload.taxonomy_version \in {None, taxonomy_version}
    /\ payload.device \in {None, self.device}

CacheOkNoDevice(self, payload, taxonomy_mtime, taxonomy_version) ==
    /\ PayloadModel(payload) \in {None, self.model_name}
    /\ payload.taxonomy_path \in {None, self.taxonomy_path}
    /\ payload.taxonomy_mtime \in {NoneNum, Some(taxonomy_mtime)}
    /\ payload.taxonomy_version \in {None, taxonomy_version}

CacheOk(self, payload, taxonomy_mtime, taxonomy_version) ==
    /\ PayloadModel(payload) \in {None, self.model_name}
    /\ payload.taxonomy_path \in {None, self.taxonomy_path}
    /\ payload.taxonomy_mtime \in {NoneNum, Some(taxonomy_mtime)}
    /\ payload.taxonomy_version \in {None, taxonomy_version}
    /\ payload.device \in {None, self.device}

(* the cache is read and returned from: the file is there, cache_ok holds  *)
(* and the payload has categories                                          *)
CacheHit(self, tax, cache) ==
    /\ self.centroids_cache # None
    /\ cache # <<>>
    /\ CacheOk(self, cache[1], tax.mtime, tax.data.version)
    /\ cache[1].categories # <<>>

(* the dict the loop over items writes into: self.categories, which the    *)
(* cache branch has rebound to the payload's (empty) dict when cache_ok    *)
LoopStart(self, tax, cache) ==
    IF /\ self.centroids_cache # None
       /\ cache # <<>>
       /\ CacheOk(self, cache[1], tax.mtime, tax.data.version)
    THEN cache[1].categories
    ELSE self.categories

(* load_taxonomy: the classifier and the cache file it leaves, whether it  *)
(* found the file, whether it returned from the cache, whether it raised,  *)
(* and the number of calls of the embedder.  When the loop raises, the     *)
(* entries written before stay in self.categories and nothing is saved.    *)
load_taxonomy(self, tax, cache) ==
    IF ~tax.exists
    THEN [self |-> self, cache |-> cache, found |-> FALSE, cache_hit |-> FALSE,
          raised |-> FALSE, encodes |-> 0]
    ELSE IF CacheHit(self, tax, cache)
    THEN [self |-> [self EXCEPT !.taxonomy_version = tax.data.version,
                                !.categories = cache[1].categories],
          cache |-> cache, found |-> TRUE, cache_hit |-> TRUE, raised |-> FALSE,
          encodes |-> 0]
    ELSE LET cats == LoadItems(LoopStart(self, tax, cache), Items(tax.data),
                               self.model_name)
             raised == LoopRaises(Items(tax.data))
         IN  [self |-> [self EXCEPT !.taxonomy_version = tax.data.version,
                                    !.categories = cats],
              cache |-> IF self.centroids_cache # None /\ ~raised
                        THEN << Payload(self.model_name, None, self.taxonomy_path,
                                        Some(tax.mtime), tax.data.version,
                                        self.device, cats) >>
                        ELSE cache,
              found |-> TRUE, cache_hit |-> FALSE, raised |-> raised,
              encodes |-> EncodedItems(Items(tax.data))]

(* NewsClassifier.__init__ up to the call of load_taxonomy                 *)
NewClassifier(taxonomy_path, model_name, device, centroids_cache) ==
    [model_name |-> model_name, device |-> device, taxonomy_path |-> taxonomy_path,
     centroids_cache |-> centroids_cache, categories |-> <<>>,
     taxonomy_version |-> None]

---------------------------------------------------------------------------
(* Cache files found at the cache path that this process did not write: a  *)
(* file of an earlier release or of another deployment sharing /shared.    *)
(* Any of its keys may be missing.                                         *)

ForeignCategories ==
    LoadItems(<<>>, << Node("weather", "Weather", <<"heat wave">>) >>, "MiniLM")

ForeignPayloads ==
    { Payload(None, None, None, NoneNum, None, None, ForeignCategories),
      Payload(None, "MiniLM", None, NoneNum, None, None, ForeignCategories),
      Payload("mpnet", None, DEFAULT_TAXONOMY_PATH, Some(1), None, "cpu",
              ForeignCategories),
      Payload("mpnet", None, "other.json", Some(1), "v1", "cpu", ForeignCategories),
      Payload("mpnet", None, DEFAULT_TAXONOMY_PATH, Some(1), "v1", "cuda",
              ForeignCategories),
      Payload("mpnet", None, DEFAULT_TAXONOMY_PATH, Some(1), "v1", "cpu",
              ForeignCategories),
      Payload("MiniLM", None, DEFAULT_TAXONOMY_PATH, Some(1), "v1", "cpu",
              ForeignCategories) }

---------------------------------------------------------------------------
(* State.                                                                  *)
(*   taxFile            the file at the taxonomy path                      *)
(*   cacheFile          <<>> or <<payload>>: the file at the cache path    *)
(*   classifier_engine  <<>> (None) or <<the NewsClassifier>>              *)
(*   changed            the taxonomy file was written since it was read    *)
(*   last               the last operation and what it returned            *)
(*   loader             the position of a load_taxonomy running in steps   *)
(*   handlers           the request handlers inside get_classifier_engine  *)
(*   singleton          the NewsClassifier objects made so far and the one *)
(*                      _classifier_engine refers to                       *)
(*   article_table      the rows of the articles table                     *)
(*   feed               the entries of the feed reader and those read      *)
(*   runs               the position of each run of sync_entries           *)

Idle == [pc |-> "idle"]

NoOp == [op |-> "none"]

Handlers == {"reclassify_1", "reclassify_2"}

Runners == {"polling_loop", "sync_and_classify"}

service == <<handlers, singleton, article_table, feed, runs>>

(* no request in get_classifier_engine, an empty table, an empty feed, no  *)
(* run of sync_entries                                                     *)
ServiceIdle ==
    /\ handlers = [h \in Handlers |-> [pc |-> "idle", new |-> 0, built |-> <<>>, engine |-> 0]]
    /\ singleton = [made |-> 0, current |-> 0]
    /\ article_table = <<>>
    /\ feed = [entries |-> <<>>, read |-> {}]
    /\ runs = [r \in Runners |-> Idle]

Init ==
    /\ taxFile \in {[exists |-> FALSE, mtime |-> 1, data |-> TaxEmpty]}
                   \cup {[exists |-> TRUE, mtime |-> 1, data |-> t] : t \in Taxonomies}
    /\ cacheFile = <<>>
    /\ classifier_engine = <<>>
    /\ changed = FALSE
    /\ last = NoOp
    /\ loader = Idle
    /\ ServiceIdle

LoadRecord(op, r, cache, after_change) ==
    [op |-> op, found |-> r.found, cache_hit |-> r.cache_hit, raised |-> r.raised,
     encodes |-> r.encodes, payload |-> cache, after_change |-> after_change]

(* process start and the first get_classifier_engine():                    *)
(* NewsClassifier(...) with its load_taxonomy; when that raises,           *)
(* _classifier_engine stays None                                           *)
Construct(model_name, device, centroids_cache) ==
    /\ loader = Idle
    /\ LET r == load_taxonomy(NewClassifier(DEFAULT_TAXONOMY_PATH, model_name,
                                            device, centroids_cache),
                              taxFile, cacheFile)
       IN  /\ classifier_engine' = IF r.raised THEN <<>> ELSE <<r.self>>
           /\ cacheFile' = r.cache
           /\ last' = LoadRecord("construct", r, cacheFile, changed)
    /\ changed' = IF taxFile.exists THEN FALSE ELSE changed
    /\ UNCHANGED <<taxFile, loader, service>>

(* GET /taxonomy/reload                                                    *)
Reload ==
    /\ loader = Idle
    /\ classifier_engine # <<>>
    /\ LET r == load_taxonomy(classifier_engine[1], taxFile, cacheFile)
       IN  /\ classifier_engine' = <<r.self>>
           /\ cacheFile' = r.cache
           /\ last' = LoadRecord("reload", r, cacheFile, changed)
    /\ changed' = IF taxFile.exists THEN FALSE ELSE changed
    /\ UNCHANGED <<taxFile, loader, service>>

(* POST /classify, POST /articles/{id}/reclassify                           *)
Classify(text, threshold, margin_threshold, min_len, low_bucket) ==
    /\ classifier_engine # <<>>
    /\ LET r == classify_text_with_scores(classifier_engine[1].categories, text,
                                          threshold, margin_threshold, min_len,
                                          low_bucket)
       IN  last' = [op |-> "classify", text |-> text, threshold |-> threshold,
                    margin_threshold |-> margin_threshold, min_len |-> min_len,
                    low_bucket |-> low_bucket,
                    seen |-> classifier_engine[1].categories,
                    encodes |-> r.encodes, result |-> r.result]
    /\ UNCHANGED <<taxFile, cacheFile, classifier_engine, changed, loader, service>>

(* the operator edits the taxonomy file                                    *)
WriteTaxonomy(t) ==
    /\ taxFile.mtime < MaxMtime
    /\ t # taxFile.data \/ ~taxFile.exists
    /\ taxFile' = [exists |-> TRUE, mtime |-> taxFile.mtime + 1, data |-> t]
    /\ changed' = TRUE
    /\ last' = [op |-> "write"]
    /\ UNCHANGED <<cacheFile, classifier_engine, loader, service>>

DeleteTaxonomy ==
    /\ taxFile.exists
    /\ taxFile' = [exists |-> FALSE, mtime |-> taxFile.mtime, data |-> TaxEmpty]
    /\ changed' = TRUE
    /\ last' = [op |-> "delete"]
    /\ UNCHANGED <<cacheFile, classifier_engine, loader, service>>

(* a cache file this process did not write appears at the cache path       *)
InstallCache(payload) ==
    /\ cacheFile' = <<payload>>
    /\ last' = [op |-> "install"]
    /\ UNCHANGED <<taxFile, classifier_engine, changed, loader, service>>

---------------------------------------------------------------------------
(* The service: the engine is built, reloaded and asked to classify while  *)
(* the operator edits the files.                                           *)

Next ==
    \/ \E m \in Models, d \in Devices, c \in CachePaths : Construct(m, d, c)
    \/ Reload
    \/ \E text \in TextsFor(IF classifier_engine = <<>> THEN <<>>
                            ELSE classifier_engine[1].categories,
                            {0, MaxLen}, {40}) :
           Classify(text, 36, 7, 2, "other")
    \/ \E t \in Taxonomies : WriteTaxonomy(t)
    \/ DeleteTaxonomy
    \/ \E p \in ForeignPayloads : InstallCache(p)

Spec == Init /\ [][Next]_vars

---------------------------------------------------------------------------
(* Reload beside classification.  GET /taxonomy/reload is an async         *)
(* endpoint and runs load_taxonomy on the event loop thread; POST          *)
(* /articles/{id}/reclassify is a sync endpoint and runs                   *)
(* classify_text_with_scores on a worker thread.  Nothing locks            *)
(* self.categories, so a classification may run between any two            *)
(* statements of load_taxonomy.                                            *)

(* load_taxonomy up to the loop over items *)
ReloadBegin ==
    /\ loader = Idle
    /\ classifier_engine # <<>>
    /\ LET me == classifier_engine[1]
           r == load_taxonomy(me, taxFile, cacheFile)
       IN  IF ~taxFile.exists \/ CacheHit(me, taxFile, cacheFile)
           THEN /\ classifier_engine' = <<r.self>>
                /\ loader' = Idle
                /\ last' = LoadRecord("reload", r, cacheFile, changed)
           ELSE /\ classifier_engine' =
                      << [me EXCEPT !.taxonomy_version = taxFile.data.version,
                                    !.categories = LoopStart(me, taxFile, cacheFile)] >>
                /\ loader' = [pc |-> "loop", items |-> Items(taxFile.data),
                              taxonomy_mtime |-> taxFile.mtime,
                              old |-> me.categories, final |-> r.self.categories]
                /\ last' = [op |-> "reload_begin"]
    /\ changed' = IF taxFile.exists THEN FALSE ELSE changed
    /\ UNCHANGED <<taxFile, cacheFile, service>>

(* one turn of the loop: self.categories[cat_id] = {...}, or the           *)
(* TypeError that ends the load                                            *)
ReloadStep ==
    /\ loader.pc = "loop"
    /\ loader.items # <<>>
    /\ IF Raises(Head(loader.items))
       THEN /\ classifier_engine' = classifier_engine
            /\ loader' = Idle
            /\ last' = [op |-> "reload_raised"]
       ELSE /\ LET me == classifier_engine[1]
               IN  classifier_engine' =
                      << [me EXCEPT !.categories =
                                       LoadItem(me.categories, Head(loader.items),
                                                me.model_name)] >>
            /\ loader' = [loader EXCEPT !.items = Tail(loader.items)]
            /\ last' = [op |-> "reload_step"]
    /\ UNCHANGED <<taxFile, cacheFile, changed, service>>

(* after the loop: torch.save of the payload *)
ReloadEnd ==
    /\ loader.pc = "loop"
    /\ loader.items = <<>>
    /\ LET me == classifier_engine[1]
       IN  cacheFile' = IF me.centroids_cache # None
                        THEN << Payload(me.model_name, None, me.taxonomy_path,
                                        Some(loader.taxonomy_mtime),
                                        me.taxonomy_version, me.device,
                                        me.categories) >>
                        ELSE cacheFile
    /\ loader' = Idle
    /\ last' = [op |-> "reload_end",
                as_atomic |-> classifier_engine[1].categories = loader.final]
    /\ UNCHANGED <<taxFile, classifier_engine, changed, service>>

NextConc ==
    \/ /\ classifier_engine = <<>>
       /\ \E m \in Models, c \in CachePaths : Construct(m, "cpu", c)
    \/ ReloadBegin
    \/ ReloadStep
    \/ ReloadEnd
    \/ \E text \in TextsFor(IF classifier_engine = <<>> THEN <<>>
                            ELSE classifier_engine[1].categories,
                            {MaxLen}, {40}) :
           Classify(text, 36, 7, 2, "other")
    \/ \E t \in Taxonomies : WriteTaxonomy(t)
    \/ DeleteTaxonomy

SpecConc == Init /\ [][NextConc]_vars

---------------------------------------------------------------------------
(* The service over taxonomy files whose anchors are language maps or are  *)
(* malformed.                                                              *)

InitAnchors ==
    /\ taxFile \in {[exists |-> TRUE, mtime |-> 1, data |-> t] : t \in AnchorTaxonomies}
    /\ cacheFile = <<>>
    /\ classifier_engine = <<>>
    /\ changed = FALSE
    /\ last = NoOp
    /\ loader = Idle
    /\ ServiceIdle

NextAnchors ==
    \/ \E m \in Models, c \in CachePaths : Construct(m, "cpu", c)
    \/ Reload
    \/ \E t \in AnchorTaxonomies : WriteTaxonomy(t)

SpecAnchors == InitAnchors /\ [][NextAnchors]_vars

---------------------------------------------------------------------------
(* get_classifier_engine called from request handlers.  POST               *)
(* /articles/{id}/reclassify is a sync endpoint, so two requests run on    *)
(* two worker threads, and nothing locks _classifier_engine: a thread may  *)
(* be suspended between the test of the global, the constructor, the       *)
(* assignment and the return.  An object is known by its number, the       *)
(* count of NewsClassifier objects made when it was made.                  *)

InitEngine ==
    /\ taxFile \in {[exists |-> FALSE, mtime |-> 1, data |-> TaxEmpty]}
                   \cup {[exists |-> TRUE, mtime |-> 1, data |-> t] : t \in Taxonomies}
    /\ cacheFile = <<>>
    /\ classifier_engine = <<>>
    /\ changed = FALSE
    /\ last = NoOp
    /\ loader = Idle
    /\ ServiceIdle

(* a handler calls get_classifier_engine() *)
CallGetEngine(h) ==
    /\ handlers[h].pc = "idle"
    /\ handlers' = [handlers EXCEPT ![h].pc = "test", ![h].engine = 0]
    /\ UNCHANGED <<taxFile, cacheFile, classifier_engine, changed, last, loader,
                   singleton, article_table, feed, runs>>

(* `if _classifier_engine is None` *)
TestEngine(h) ==
    /\ handlers[h].pc = "test"
    /\ handlers' = [handlers EXCEPT ![h].pc =
                        IF singleton.current = 0 THEN "construct" ELSE "return"]
    /\ UNCHANGED <<taxFile, cacheFile, classifier_engine, changed, last, loader,
                   singleton, article_table, feed, runs>>

(* NewsClassifier(...): the embedding model is loaded and load_taxonomy    *)
(* runs; the object is held by the thread                                  *)
ConstructEngine(h) ==
    /\ handlers[h].pc = "construct"
    /\ LET r == load_taxonomy(NewClassifier(DEFAULT_TAXONOMY_PATH, "mpnet", "cpu", None),
                              taxFile, cacheFile)
       IN  /\ cacheFile' = r.cache
           /\ handlers' = [handlers EXCEPT ![h].pc = "assign",
                                           ![h].new = singleton.made + 1,
                                           ![h].built = <<r.self>>]
    /\ singleton' = [singleton EXCEPT !.made = singleton.made + 1]
    /\ UNCHANGED <<taxFile, classifier_engine, changed, last, loader,
                   article_table, feed, runs>>

(* `_classifier_engine = ` the object *)
AssignEngine(h) ==
    /\ handlers[h].pc = "assign"
    /\ classifier_engine' = handlers[h].built
    /\ singleton' = [singleton EXCEPT !.current = handlers[h].new]
    /\ handlers' = [handlers EXCEPT ![h].pc = "return", ![h].new = 0, ![h].built = <<>>]
    /\ UNCHANGED <<taxFile, cacheFile, changed, last, loader, article_table, feed, runs>>

(* `return _classifier_engine` *)
ReturnEngine(h) ==
    /\ handlers[h].pc = "return"
    /\ handlers' = [handlers EXCEPT ![h].pc = "returned", ![h].engine = singleton.current]
    /\ UNCHANGED <<taxFile, cacheFile, classifier_engine, changed, last, loader,
                   singleton, article_table, feed, runs>>

(* the request ends; the thread serves another *)
EndRequest(h) ==
    /\ handlers[h].pc = "returned"
    /\ handlers' = [handlers EXCEPT ![h].pc = "idle"]
    /\ UNCHANGED <<taxFile, cacheFile, classifier_engine, changed, last, loader,
                   singleton, article_table, feed, runs>>

NextEngine ==
    \E h \in Handlers :
        \/ CallGetEngine(h)
        \/ TestEngine(h)
        \/ ConstructEngine(h)
        \/ AssignEngine(h)
        \/ ReturnEngine(h)
        \/ EndRequest(h)

SpecEngine == InitEngine /\ [][NextEngine]_vars

---------------------------------------------------------------------------
(* sync_entries (main.py), run by polling_loop and by GET /digest/sync.    *)
(* Both run on the event loop, so two runs interleave at the awaits only:  *)
(* the fetch, the full-text and summary calls of an entry, and the         *)
(* mark-read call.  From the last await of an entry to its commit nothing  *)
(* awaits, so an entry is one step.  The feed holds fewer entries than     *)
(* `limit`.  An entry is its id (None when it has none) and its            *)
(* "published" value: "epoch" a number of seconds, "missing", "malformed". *)

EntryIds == <<"e1", "e2", None>>

Published == {"epoch", "missing", "malformed"}

(* the feeds: some of the entries, in the order of EntryIds *)
Feeds(n) ==
    LET Pick(ids) == {f \in [1..Len(ids) -> [id : {ids[i] : i \in 1..Len(ids)}, published : Published]] :
                         \A i \in 1..Len(ids) : f[i].id = ids[i]}
    IN  UNION {Pick(ids) : ids \in {<<>>, <<"e1">>, <<"e2">>, <<None>>, <<"e1", "e2">>,
                                     <<"e1", None>>, <<"e2", None>>, <<"e1", "e2", None>>}
                                    \cap UNION {[1..k -> {"e1", "e2", None}] : k \in 0..n}}

(* the text sync_entries classifies: long enough, near every centroid *)
EntryText(cats) == [len |-> 40, cos |-> [c \in CentroidsOf(cats) |-> 40]]

(* pub_date: the except branch calls datetime.now(datetime.timezone.utc),  *)
(* and `datetime` is the class, which has no attribute `timezone`          *)
PubDateRaises(entry) == entry.published # "epoch"

(* variant: a plain insert *)
InsertRow(table, row) == Append(table, row)

(* insert(Article).values(...).on_conflict_do_nothing(['freshrss_id']) *)
InsertOnConflictDoNothing(table, row) ==
    IF \E i \in 1..Len(table) : table[i].freshrss_id = row.freshrss_id
    THEN table
    ELSE Append(table, row)

RunIdle == [pc |-> "idle"]

InitSync ==
    /\ taxFile = [exists |-> TRUE, mtime |-> 1, data |-> TaxSportsFinance]
    /\ cacheFile = <<>>
    /\ classifier_engine = <<>>
    /\ changed = FALSE
    /\ last = NoOp
    /\ loader = Idle
    /\ handlers = [h \in Handlers |-> [pc |-> "idle", new |-> 0, built |-> <<>>, engine |-> 0]]
    /\ singleton = [made |-> 0, current |-> 0]
    /\ article_table = <<>>
    /\ \E entries \in Feeds(MaxEntries) : feed = [entries |-> entries, read |-> {}]
    /\ runs = [r \in Runners |-> RunIdle]

(* get_unread_entries: the entries not yet read *)
Unread ==
    LET keep == {i \in 1..Len(feed.entries) : feed.entries[i].id \notin feed.read}
        F[i \in 0..Len(feed.entries)] ==
            IF i = 0 THEN <<>>
            ELSE IF i \in keep THEN Append(F[i - 1], feed.entries[i]) ELSE F[i - 1]
    IN  F[Len(feed.entries)]

(* a run starts and fetches *)
StartSync(r) ==
    /\ runs[r].pc \in {"idle", "done", "failed"}
    /\ runs' = [runs EXCEPT ![r] = [pc |-> "loop", to_process |-> Unread,
                                    processed_ids |-> <<>>, committed |-> {},
                                    marked |-> {}, handled |-> <<>>]]
    /\ UNCHANGED <<taxFile, cacheFile, classifier_engine, changed, last, loader,
                   handlers, singleton, article_table, feed>>

(* one turn of the loop.  pub_date is computed first, then the summary is  *)
(* asked for; summarized is whether summarize_article returns when called. *)
(* The defaults of classify_text_with_scores are 0.36, 0.07, 30, "other".  *)
ProcessEntry(r, summarized) ==
    /\ runs[r].pc = "loop"
    /\ runs[r].to_process # <<>>
    /\ LET entry == Head(runs[r].to_process)
           made == load_taxonomy(NewClassifier(DEFAULT_TAXONOMY_PATH, "mpnet", "cpu", None),
                                 taxFile, cacheFile)
           engine == IF classifier_engine = <<>> THEN made.self ELSE classifier_engine[1]
           classify_result ==
               classify_text_with_scores(engine.categories, EntryText(engine.categories),
                                         36, 7, 30, "other").result
           row == [freshrss_id |-> entry.id,
                   category_id |-> classify_result.category_id,
                   published_at |-> "entry"]
       IN  IF PubDateRaises(entry) \/ ~summarized
           THEN /\ runs' = [runs EXCEPT ![r].pc = "failed",
                                        ![r].handled = <<[entry |-> entry,
                                                          summarized |-> summarized,
                                                          raised |-> TRUE]>>]
                /\ UNCHANGED <<cacheFile, classifier_engine, singleton, article_table>>
           ELSE /\ IF classifier_engine = <<>>
                   THEN /\ classifier_engine' = <<made.self>>
                        /\ cacheFile' = made.cache
                        /\ singleton' = [made |-> singleton.made + 1,
                                         current |-> singleton.made + 1]
                   ELSE UNCHANGED <<cacheFile, classifier_engine, singleton>>
                /\ article_table' = InsertOnConflictDoNothing(article_table, row)
                /\ runs' = [runs EXCEPT
                              ![r].to_process = Tail(runs[r].to_process),
                              ![r].committed = runs[r].committed \cup {entry.id},
                              ![r].processed_ids =
                                  IF entry.id # None
                                  THEN Append(runs[r].processed_ids, entry.id)
                                  ELSE runs[r].processed_ids,
                              ![r].handled = <<[entry |-> entry,
                                                summarized |-> summarized,
                                                raised |-> FALSE]>>]
    /\ UNCHANGED <<taxFile, changed, last, loader, handlers, feed>>

(* mark_entries_read(processed_ids) after the loop *)
MarkEntriesRead(r) ==
    /\ runs[r].pc = "loop"
    /\ runs[r].to_process = <<>>
    /\ LET ids == {runs[r].processed_ids[i] : i \in 1..Len(runs[r].processed_ids)}
       IN  /\ feed' = [feed EXCEPT !.read = feed.read \cup ids]
           /\ runs' = [runs EXCEPT ![r].pc = "done", ![r].marked = ids]
    /\ UNCHANGED <<taxFile, cacheFile, classifier_engine, changed, last, loader,
                   handlers, singleton, article_table>>

NextSync ==
    \E r \in Runners :
        \/ StartSync(r)
        \/ \E summarized \in BOOLEAN : ProcessEntry(r, summarized)
        \/ MarkEntriesRead(r)

SpecSync == InitSync /\ [][NextSync]_vars

---------------------------------------------------------------------------
(* Classification alone: an engine built from any of the taxonomy files,   *)
(* asked to classify every text with every parameter.                      *)

InitClassify ==
    /\ taxFile \in {[exists |-> FALSE, mtime |-> 1, data |-> TaxEmpty]}
                   \cup {[exists |-> TRUE, mtime |-> 1, data |-> t] : t \in Taxonomies}
    /\ cacheFile = <<>>
    /\ \E m \in Models :
         classifier_engine =
           << load_taxonomy(NewClassifier(DEFAULT_TAXONOMY_PATH, m, "cpu", None),
                            taxFile, cacheFile).self >>
    /\ changed = FALSE
    /\ \E text \in TextsFor(classifier_engine[1].categories, TextLens, Scores),
          threshold \in Thresholds, margin_threshold \in MarginThresholds,
          min_len \in MinLens, low_bucket \in LowBuckets :
            last = [op |-> "request", text |-> text, threshold |-> threshold,
                    margin_threshold |-> margin_threshold, min_len |-> min_len,
                    low_bucket |-> low_bucket]
    /\ loader = Idle
    /\ ServiceIdle

(* the request is served *)
NextClassify ==
    /\ last.op = "request"
    /\ Classify(last.text, last.threshold, last.margin_threshold, last.min_len,
                last.low_bucket)

SpecClassify == InitClassify /\ [][NextClassify]_vars

---------------------------------------------------------------------------
(* Batch classification: POST /classify/batch and the client of it in      *)
(* tools/reclassify.py.                                                    *)

BatchScores == {10, 40}

(* variant: the comprehension leaves out the texts that are too short *)
RECURSIVE classify_batch_skipping_short(_, _, _, _, _, _)
classify_batch_skipping_short(cats, texts, threshold, margin_threshold, min_len, low_bucket) ==
    IF texts = <<>> THEN <<>>
    ELSE (IF IsShort(Head(texts), min_len) THEN <<>>
          ELSE << classify_text_with_scores(cats, Head(texts), threshold,
                                            margin_threshold, min_len,
                                            low_bucket).result >>)
         \o classify_batch_skipping_short(cats, Tail(texts), threshold,
                                          margin_threshold, min_len, low_bucket)

(* the endpoint: [clf.classify_text_with_scores(text, ...) for text in     *)
(* payload.texts]                                                          *)
RECURSIVE classify_batch(_, _, _, _, _, _)
classify_batch(cats, texts, threshold, margin_threshold, min_len, low_bucket) ==
    IF texts = <<>> THEN <<>>
    ELSE << classify_text_with_scores(cats, Head(texts), threshold, margin_threshold,
                                      min_len, low_bucket).result >>
         \o classify_batch(cats, Tail(texts), threshold, margin_threshold, min_len,
                           low_bucket)

(* the client: no request for an empty list, RuntimeError when the answer  *)
(* has another length than the request                                     *)
reclassify_classify_batch(cats, texts, threshold, margin_threshold, min_len, low_bucket) ==
    IF texts = <<>> THEN [results |-> <<>>, raised |-> FALSE]
    ELSE LET results == classify_batch(cats, texts, threshold, margin_threshold,
                                       min_len, low_bucket)
         IN  IF Len(results) # Len(texts)
             THEN [results |-> <<>>, raised |-> TRUE]
             ELSE [results |-> results, raised |-> FALSE]

ClassifyBatch(texts, threshold, margin_threshold, min_len, low_bucket) ==
    /\ classifier_engine # <<>>
    /\ LET r == reclassify_classify_batch(classifier_engine[1].categories, texts,
                                          threshold, margin_threshold, min_len,
                                          low_bucket)
       IN  last' = [op |-> "classify_batch", texts |-> texts,
                    threshold |-> threshold, margin_threshold |-> margin_threshold,
                    min_len |-> min_len, low_bucket |-> low_bucket,
                    seen |-> classifier_engine[1].categories,
                    results |-> r.results, raised |-> r.raised]
    /\ UNCHANGED <<taxFile, cacheFile, classifier_engine, changed, loader, service>>

InitBatch ==
    /\ taxFile \in {[exists |-> FALSE, mtime |-> 1, data |-> TaxEmpty]}
                   \cup {[exists |-> TRUE, mtime |-> 1, data |-> t] : t \in Taxonomies}
    /\ cacheFile = <<>>
    /\ \E m \in Models :
         classifier_engine =
           << load_taxonomy(NewClassifier(DEFAULT_TAXONOMY_PATH, m, "cpu", None),
                            taxFile, cacheFile).self >>
    /\ changed = FALSE
    /\ \E n \in 0..MaxBatch :
         \E texts \in [1..n -> TextsFor(classifier_engine[1].categories,
                                        {0, MaxLen}, BatchScores)],
            threshold \in {36, 50}, min_len \in MinLens :
              last = [op |-> "batch_request", texts |-> texts,
                      threshold |-> threshold, margin_threshold |-> 7,
                      min_len |-> min_len, low_bucket |-> "other"]
    /\ loader = Idle
    /\ ServiceIdle

(* the batch is served *)
NextBatch ==
    /\ last.op = "batch_request"
    /\ ClassifyBatch(last.texts, last.threshold, last.margin_threshold,
                     last.min_len, last.low_bucket)

SpecBatch == InitBatch /\ [][NextBatch]_vars

---------------------------------------------------------------------------
(* Text cleaning (backend/app/logic/article_cleaning.py).  A text is the   *)
(* sequence of the pieces the patterns of clean_text_rules tell apart: the *)
(* newline, "[" , "](u)" (the close of a markdown link with its target),   *)
(* a word, the prefix "Read:", the line "Advertisement" and the heading    *)
(* mark "#".  Spaces between pieces are not kept: no pattern used here     *)
(* depends on them, and two texts of different pieces are different        *)
(* strings.  The texts hold no <figure> block, no image, no URL and no     *)
(* image path, so those four substitutions leave them alone;               *)
(* cut_after_heading is None.                                              *)

Pieces == {"\n", "[", "](u)", "w", "Read:", "Advertisement", "#"}

TextsUpTo(n) == UNION {[1..k -> Pieces] : k \in 0..n}

Least(S) == CHOOSE i \in S : \A j \in S : i <= j

(* text.strip(): rstrip of the lines only removes spaces *)
RECURSIVE LStrip(_)
LStrip(text) ==
    IF text # <<>> /\ Head(text) = "\n" THEN LStrip(Tail(text)) ELSE text

RECURSIVE RStrip(_)
RStrip(text) ==
    IF text # <<>> /\ text[Len(text)] = "\n"
    THEN RStrip(SubSeq(text, 1, Len(text) - 1)) ELSE text

normalize_whitespace(text) == RStrip(LStrip(text))

(* RE_MD_LINK.sub(r"\1", text): from the left, a "[" followed by at least  *)
(* one piece without "]" and then by "](u)" is replaced by what is between *)
(* them; the search goes on after the match, not inside the replacement    *)
RECURSIVE RE_MD_LINK_sub(_)
RE_MD_LINK_sub(text) ==
    IF text = <<>> THEN <<>>
    ELSE LET closes == {j \in 2..Len(text) : text[j] = "](u)"}
         IN  IF Head(text) = "[" /\ closes # {} /\ Least(closes) > 2
             THEN SubSeq(text, 2, Least(closes) - 1)
                  \o RE_MD_LINK_sub(SubSeq(text, Least(closes) + 1, Len(text)))
             ELSE <<Head(text)>> \o RE_MD_LINK_sub(Tail(text))

(* text.split("\n") *)
RECURSIVE SplitLines(_)
SplitLines(text) ==
    LET nl == {i \in 1..Len(text) : text[i] = "\n"}
    IN  IF nl = {} THEN <<text>>
        ELSE <<SubSeq(text, 1, Least(nl) - 1)>>
             \o SplitLines(SubSeq(text, Least(nl) + 1, Len(text)))

(* "\n".join(cleaned_lines) *)
RECURSIVE JoinLines(_)
JoinLines(lines) ==
    IF lines = <<>> THEN <<>>
    ELSE IF Len(lines) = 1 THEN lines[1]
    ELSE lines[1] \o <<"\n">> \o JoinLines(Tail(lines))

(* RE_AD and RE_BRACKETED_READ; none of the boilerplate lines is a text    *)
remove_line_if_boilerplate(line) ==
    \/ line = <<"Advertisement">>
    \/ (Len(line) >= 2 /\ line[1] = "[" /\ line[2] = "Read:")

(* RE_HEADING.match(line): the mark and white space after it *)
IsHeading(line) == Len(line) >= 2 /\ line[1] = "#"

(* RE_READ_COLON.sub("", line): the pattern is anchored at the start *)
RE_READ_COLON_sub(line) ==
    IF line # <<>> /\ Head(line) = "Read:" THEN Tail(line) ELSE line

(* the loop over the lines *)
RECURSIVE CleanLines(_)
CleanLines(lines) ==
    IF lines = <<>> THEN <<>>
    ELSE LET line == Head(lines)
             rest == CleanLines(Tail(lines))
         IN  IF line = <<>> THEN << <<>> >> \o rest
             ELSE IF remove_line_if_boilerplate(line) THEN rest
             ELSE IF IsHeading(line) THEN <<line>> \o rest
             ELSE IF RE_READ_COLON_sub(line) # <<>>
                  THEN <<RE_READ_COLON_sub(line)>> \o rest
                  ELSE rest

clean_text_rules(text) ==
    normalize_whitespace(
        JoinLines(CleanLines(SplitLines(RE_MD_LINK_sub(normalize_whitespace(text))))))

InitClean ==
    /\ taxFile = [exists |-> FALSE, mtime |-> 1, data |-> TaxEmpty]
    /\ cacheFile = <<>>
    /\ classifier_engine = <<>>
    /\ changed = FALSE
    /\ last \in {[op |-> "clean_request", text |-> t] : t \in TextsUpTo(MaxTokens)}
    /\ loader = Idle
    /\ ServiceIdle

(* clean_text_rules(text) *)
CleanText ==
    /\ last.op = "clean_request"
    /\ last' = [op |-> "clean", text |-> last.text,
                cleaned |-> clean_text_rules(last.text)]
    /\ UNCHANGED <<taxFile, cacheFile, classifier_engine, changed, loader, service>>

(* clean_text_rules of a text that clean_text_rules returned *)
CleanAgain ==
    /\ last.op = "clean"
    /\ last' = [op |-> "reclean", text |-> last.text, cleaned |-> last.cleaned,
                recleaned |-> clean_text_rules(last.cleaned)]
    /\ UNCHANGED <<taxFile, cacheFile, classifier_engine, changed, loader, service>>

NextClean == CleanText \/ CleanAgain

SpecClean == InitClean /\ [][NextClean]_vars

---------------------------------------------------------------------------
(* Phrases (backend/app/logic/anchor_extraction.py, the anchor miner       *)
(* backend/tools/build_l1_anchors.py, backend/tools/bm25_classify.py).  A  *)
(* token is a lower-case word as WORD_RE finds it; a phrase is a sequence  *)
(* of tokens.  The words are few, one or two for each rule of              *)
(* valid_phrase; the sets below are the members of the source's sets       *)
(* among them.                                                             *)

Vocabulary ==
    {"the", "le", "report", "week", "waterfront", "redevelopment", "plan", "court",
     "covid-19", "newsletter", "x", "continue", "reading"}

(* len(t) *)
TokenLen ==
    ("the" :> 3) @@ ("le" :> 2) @@ ("report" :> 6) @@ ("week" :> 4)
    @@ ("waterfront" :> 10) @@ ("redevelopment" :> 13) @@ ("plan" :> 4)
    @@ ("court" :> 5) @@ ("covid-19" :> 8) @@ ("newsletter" :> 10) @@ ("x" :> 1)
    @@ ("continue" :> 8) @@ ("reading" :> 7)

(* any(ch.isdigit() for ch in t) *)
HasDigit(t) == t \in {"covid-19"}

(* t.isalpha() *)
IsAlpha(t) == t \notin {"covid-19"}

STOP_EN == {"the"}
STOP_FR == {"le"}
GENERIC_DENY_EN == {"report"}
GENERIC_DENY_FR == {}
DENY_TOKENS == {"newsletter"}

(* the sets of the same names in build_l1_anchors.py *)
MINER_GENERIC_DENY_EN == {"report", "week"}
MINER_GENERIC_DENY_FR == {}

Phrases(n) == UNION {[1..k -> Vocabulary] : k \in 0..n}

Langs == {"en", "fr"}
MinChars == {4, 12}

Stop(lang) == IF lang = "en" THEN STOP_EN ELSE STOP_FR

(* len(" ".join(phrase_toks)) *)
RECURSIVE SumLen(_)
SumLen(phrase_toks) ==
    IF phrase_toks = <<>> THEN 0
    ELSE TokenLen[Head(phrase_toks)] + SumLen(Tail(phrase_toks))

JoinedLen(phrase_toks) ==
    IF phrase_toks = <<>> THEN 0 ELSE SumLen(phrase_toks) + Len(phrase_toks) - 1

(* tokenize, of a text given as the words WORD_RE finds in it *)
RECURSIVE tokenize(_, _)
tokenize(text, lang) ==
    IF text = <<>> THEN <<>>
    ELSE (IF Head(text) \notin Stop(lang) /\ TokenLen[Head(text)] > 2
          THEN <<Head(text)>> ELSE <<>>)
         \o tokenize(Tail(text), lang)

(* variant: only the first token is tested *)
boundary_stopword_first_only(phrase_toks, stop) ==
    phrase_toks = <<>> \/ phrase_toks[1] \in stop

boundary_stopword(phrase_toks, stop) ==
    \/ phrase_toks = <<>>
    \/ phrase_toks[1] \in stop
    \/ phrase_toks[Len(phrase_toks)] \in stop
    \/ \A i \in 1..Len(phrase_toks) : phrase_toks[i] \in stop

contains_generic(phrase_toks, lang) ==
    LET deny == IF lang = "en" THEN GENERIC_DENY_EN ELSE GENERIC_DENY_FR
    IN  \E i \in 1..Len(phrase_toks) : phrase_toks[i] \in deny

(* the number of tokens that hold a digit *)
Digits(phrase_toks) ==
    Cardinality({i \in 1..Len(phrase_toks) : HasDigit(phrase_toks[i])})

(* digits >= max(1, len(phrase_toks) // 2) *)
numeric_heavy(phrase_toks) ==
    LET half == Len(phrase_toks) \div 2
    IN  Digits(phrase_toks) >= (IF half > 1 THEN half ELSE 1)

(* DENY_PHRASE_RE.search(phrase): among these words, "newsletter" in the   *)
(* phrase, or "continue" followed by "reading"                             *)
DENY_PHRASE_RE_search(phrase_toks) ==
    \/ \E i \in 1..Len(phrase_toks) : phrase_toks[i] = "newsletter"
    \/ \E i \in 1..(Len(phrase_toks) - 1) :
          phrase_toks[i] = "continue" /\ phrase_toks[i + 1] = "reading"

(* valid_phrase of anchor_extraction.py *)
valid_phrase(phrase_toks, lang, min_chars) ==
    IF JoinedLen(phrase_toks) < min_chars THEN FALSE
    ELSE IF boundary_stopword(phrase_toks, Stop(lang)) THEN FALSE
    ELSE IF contains_generic(phrase_toks, lang) THEN FALSE
    ELSE IF numeric_heavy(phrase_toks) THEN FALSE
    ELSE IF DENY_PHRASE_RE_search(phrase_toks) THEN FALSE
    ELSE IF \E i \in 1..Len(phrase_toks) : phrase_toks[i] \in DENY_TOKENS THEN FALSE
    ELSE IF lang = "en" /\ \E i \in 1..Len(phrase_toks) : TokenLen[phrase_toks[i]] = 1
         THEN FALSE
    ELSE IF Len(phrase_toks) = 1
         THEN IsAlpha(phrase_toks[1]) /\ TokenLen[phrase_toks[1]] >= 6
    ELSE TRUE

(* contains_generic of build_l1_anchors.py *)
miner_contains_generic(phrase_toks, lang) ==
    LET deny == IF lang = "en" THEN MINER_GENERIC_DENY_EN ELSE MINER_GENERIC_DENY_FR
    IN  \E i \in 1..Len(phrase_toks) : phrase_toks[i] \in deny

(* valid_phrase of build_l1_anchors.py: the verdict and its reason *)
miner_valid_phrase(phrase_toks, lang, min_chars) ==
    IF phrase_toks = <<>> THEN [ok |-> FALSE, reason |-> "empty"]
    ELSE IF JoinedLen(phrase_toks) < min_chars
         THEN [ok |-> FALSE, reason |-> "too_short"]
    ELSE IF boundary_stopword(phrase_toks, Stop(lang))
         THEN [ok |-> FALSE, reason |-> "boundary_stopword"]
    ELSE IF miner_contains_generic(phrase_toks, lang)
         THEN [ok |-> FALSE, reason |-> "contains_generic"]
    ELSE IF Len(phrase_toks) = 1
         THEN IF TokenLen[phrase_toks[1]] >= 5 /\ IsAlpha(phrase_toks[1])
              THEN [ok |-> TRUE, reason |-> "ok_single"]
              ELSE [ok |-> FALSE, reason |-> "single_word"]
    ELSE [ok |-> TRUE, reason |-> "ok"]

(* anchor_phrases[:anchors_top] without the empty ones *)
RECURSIVE TopAnchors(_, _)
TopAnchors(anchor_phrases, anchors_top) ==
    IF anchor_phrases = <<>> \/ anchors_top <= 0 THEN <<>>
    ELSE (IF Head(anchor_phrases) # <<>> THEN <<Head(anchor_phrases)>> ELSE <<>>)
         \o TopAnchors(Tail(anchor_phrases), anchors_top - 1)

RECURSIVE Flatten(_)
Flatten(phrases) ==
    IF phrases = <<>> THEN <<>> ELSE Head(phrases) \o Flatten(Tail(phrases))

Take(seq, n) == SubSeq(seq, 1, IF n < Len(seq) THEN n ELSE Len(seq))

(* build_query: the anchors it admits and the words of the query, the      *)
(* title twice, the anchors, then the first body_terms_cap body tokens     *)
build_query(title, body, lang, anchor_phrases, anchors_top, body_terms_cap) ==
    LET top_anchors == TopAnchors(anchor_phrases, anchors_top)
        body_tokens == Take(tokenize(body, lang), body_terms_cap)
    IN  [top_anchors |-> top_anchors,
         query |-> title \o title \o Flatten(top_anchors) \o body_tokens]

InitPhrase ==
    /\ taxFile = [exists |-> FALSE, mtime |-> 1, data |-> TaxEmpty]
    /\ cacheFile = <<>>
    /\ classifier_engine = <<>>
    /\ changed = FALSE
    /\ last \in {[op |-> "phrase", phrase_toks |-> p, lang |-> l, min_chars |-> m] :
                    p \in Phrases(MaxPhrase), l \in Langs, m \in MinChars}
    /\ loader = Idle
    /\ ServiceIdle

(* anchor extraction asks valid_phrase *)
ValidPhrase ==
    /\ last.op = "phrase"
    /\ last' = [op |-> "valid_phrase", phrase_toks |-> last.phrase_toks,
                lang |-> last.lang, min_chars |-> last.min_chars,
                numeric_heavy |-> numeric_heavy(last.phrase_toks),
                ok |-> valid_phrase(last.phrase_toks, last.lang, last.min_chars)]
    /\ UNCHANGED <<taxFile, cacheFile, classifier_engine, changed, loader, service>>

(* the anchor miner asks its valid_phrase *)
MinerValidPhrase ==
    /\ last.op = "phrase"
    /\ last' = [op |-> "miner_valid_phrase", phrase_toks |-> last.phrase_toks,
                lang |-> last.lang, min_chars |-> last.min_chars,
                ok |-> miner_valid_phrase(last.phrase_toks, last.lang,
                                          last.min_chars).ok]
    /\ UNCHANGED <<taxFile, cacheFile, classifier_engine, changed, loader, service>>

(* bm25_classify builds its query with the phrase as an anchor of the      *)
(* anchors file, under the default --anchors-top and --body-terms-cap      *)
BuildQuery ==
    /\ last.op = "phrase"
    /\ LET q == build_query(<<"court">>, <<"the", "court", "x", "plan">>, last.lang,
                            <<last.phrase_toks>>, 25, 200)
       IN  last' = [op |-> "build_query", phrase_toks |-> last.phrase_toks,
                    lang |-> last.lang, min_chars |-> last.min_chars,
                    top_anchors |-> q.top_anchors, query |-> q.query]
    /\ UNCHANGED <<taxFile, cacheFile, classifier_engine, changed, loader, service>>

NextPhrase == ValidPhrase \/ MinerValidPhrase \/ BuildQuery

SpecPhrase == InitPhrase /\ [][NextPhrase]_vars

---------------------------------------------------------------------------
(* BM25 (extract_anchors_bm25 of anchor_extraction.py and main of          *)
(* tools/bm25_classify.py).  rank_bm25 is not part of the repository: the  *)
(* score it gives a query is kept as the term of the index and the query,  *)
(* or is an input of the run; its constructor divides the number of tokens *)
(* by the number of documents and raises ZeroDivisionError when there is   *)
(* no document.                                                            *)

BM25Okapi_raises(corpus_tokens) == corpus_tokens = <<>>

(* max(bm25.get_scores(q_tokens)) *)
MaxBm25Score(corpus_tokens, q_tokens) == [corpus |-> corpus_tokens, q |-> q_tokens]

(* a text to extract anchors from: words, the end of a sentence (a full    *)
(* stop and white space) and the newline                                   *)
ExtractPieces == {"\n", ".", "the", "x", "waterfront", "plan"}

ExtractTexts(n) == UNION {[1..k -> ExtractPieces] : k \in 0..n}

(* WORD_RE.findall(text.lower()) *)
RECURSIVE Words(_)
Words(text) ==
    IF text = <<>> THEN <<>>
    ELSE (IF Head(text) \in {"\n", "."} THEN <<>> ELSE <<Head(text)>>)
         \o Words(Tail(text))

(* SENTENCE_SPLIT_RE.split(cleaned) *)
RECURSIVE SplitSentences(_)
SplitSentences(text) ==
    LET stops == {i \in 1..Len(text) : text[i] = "."}
    IN  IF stops = {} THEN <<text>>
        ELSE <<SubSeq(text, 1, Least(stops) - 1)>>
             \o SplitSentences(SubSeq(text, Least(stops) + 1, Len(text)))

(* [s.strip() for s in ... if s.strip()] *)
RECURSIVE NonBlank(_)
NonBlank(sentences) ==
    IF sentences = <<>> THEN <<>>
    ELSE (IF normalize_whitespace(Head(sentences)) # <<>>
          THEN <<normalize_whitespace(Head(sentences))>> ELSE <<>>)
         \o NonBlank(Tail(sentences))

(* the token lists of the sentences that have tokens *)
RECURSIVE CorpusTokens(_, _)
CorpusTokens(sentences, lang) ==
    IF sentences = <<>> THEN <<>>
    ELSE (IF tokenize(Words(Head(sentences)), lang) # <<>>
          THEN <<tokenize(Words(Head(sentences)), lang)>> ELSE <<>>)
         \o CorpusTokens(Tail(sentences), lang)

(* ngrams_from_tokens: where each n-gram of 1..max_ngram tokens starts     *)
NGramStarts(toks, max_ngram) ==
    {ik \in (1..Len(toks)) \X (1..max_ngram) : ik[1] + ik[2] - 1 <= Len(toks)}

NGramAt(toks, ik) == SubSeq(toks, ik[1], ik[1] + ik[2] - 1)

(* extract_anchors_bm25.  The anchors are given as a set: their order is   *)
(* the order of the library's scores.                                      *)
extract_anchors_bm25(text, lang, topk, max_ngram, min_chars) ==
    LET cleaned == clean_text_rules(text)
        split == NonBlank(SplitSentences(cleaned))
        sentences == IF split = <<>> THEN <<cleaned>> ELSE split
        corpus_tokens == CorpusTokens(sentences, lang)
        tokens_flat == tokenize(Words(cleaned), lang)
        starts == {ik \in NGramStarts(tokens_flat, max_ngram) :
                      valid_phrase(NGramAt(tokens_flat, ik), lang, min_chars)}
        candidates == {NGramAt(tokens_flat, ik) : ik \in starts}
    IN  IF cleaned = <<>>
        THEN [raised |-> FALSE, cleaned_text |-> <<>>, anchors |-> {}]
        ELSE IF corpus_tokens = <<>>
        THEN [raised |-> FALSE, cleaned_text |-> cleaned, anchors |-> {}]
        ELSE IF BM25Okapi_raises(corpus_tokens)
        THEN [raised |-> TRUE, cleaned_text |-> cleaned, anchors |-> {}]
        ELSE [raised |-> FALSE, cleaned_text |-> cleaned,
              anchors |->
                 {[phrase |-> ng,
                   score |-> MaxBm25Score(corpus_tokens, tokenize(ng, lang)),
                   count |-> Cardinality({ik \in starts :
                                             NGramAt(tokens_flat, ik) = ng})] :
                  ng \in {c \in candidates : tokenize(c, lang) # <<>>}}]

(* The taxonomy bm25_classify reads: categories with subcategories, an L2  *)
(* node being its id and the words of its profile text.                    *)
L2(l2_id, profile) == [l2_id |-> l2_id, profile |-> profile]

BmTaxonomies ==
    { <<>>,
      << <<>> >>,
      << << L2("finance", <<"the">>) >> >>,
      << << L2("finance", <<"waterfront", "plan">>) >>, << L2("sport", <<"court">>) >> >>,
      << << L2("finance", <<"plan">>), L2("sport", <<"court">>) >> >> }

(* build_l2_nodes: the subcategories of every category, in order           *)
build_l2_nodes(taxonomy) == Flatten(taxonomy)

(* sorted(range(len(scores)), key=lambda i: scores[i], reverse=True): the  *)
(* nodes by falling score, equal scores in their order                     *)
RECURSIVE Ranked(_)
Ranked(scored) ==
    IF scored = <<>> THEN <<>>
    ELSE LET top == Least({i \in 1..Len(scored) :
                              \A j \in 1..Len(scored) : scored[j].score <= scored[i].score})
         IN  <<scored[top]>>
             \o Ranked(SubSeq(scored, 1, top - 1) \o SubSeq(scored, top + 1, Len(scored)))

(* the loop of select_labels; within_best is in hundredths *)
RECURSIVE SelectLoop(_, _, _, _, _)
SelectLoop(scored, chosen, max_labels, min_score, rel_floor_100) ==
    IF scored = <<>> THEN chosen
    ELSE IF Head(scored).score < min_score \/ Head(scored).score * 100 < rel_floor_100
    THEN SelectLoop(Tail(scored), chosen, max_labels, min_score, rel_floor_100)
    ELSE IF Len(chosen) + 1 >= max_labels THEN Append(chosen, Head(scored))
    ELSE SelectLoop(Tail(scored), Append(chosen, Head(scored)), max_labels,
                    min_score, rel_floor_100)

select_labels(scored, topk, max_labels, min_score, within_best) ==
    IF scored = <<>> THEN <<>>
    ELSE SelectLoop(Take(scored, topk), <<>>, max_labels, min_score,
                    Take(scored, topk)[1].score * within_best)

(* main of bm25_classify.py; scores is what bm25.get_scores returns for    *)
(* the query, one score for each node                                      *)
bm25_classify_main(taxonomy, scores, topk, max_labels, min_score, within_best) ==
    LET l2_nodes == build_l2_nodes(taxonomy)
        scored == Ranked([i \in 1..Len(l2_nodes) |->
                            [l2_id |-> l2_nodes[i].l2_id, score |-> scores[i]]])
        top_scored == Take(scored, topk)
    IN  IF l2_nodes = <<>>
        THEN [raised |-> TRUE, selected |-> <<>>, top_candidates |-> <<>>]
        ELSE [raised |-> FALSE,
              selected |-> select_labels(top_scored, topk, max_labels, min_score,
                                         within_best),
              top_candidates |-> top_scored]

Bm25Scores == {0, 150, 300}

InitBm25 ==
    /\ taxFile = [exists |-> FALSE, mtime |-> 1, data |-> TaxEmpty]
    /\ cacheFile = <<>>
    /\ classifier_engine = <<>>
    /\ changed = FALSE
    /\ \/ \E text \in ExtractTexts(MaxText), lang \in Langs :
             last = [op |-> "extract_request", text |-> text, lang |-> lang]
       \/ \E taxonomy \in BmTaxonomies, topk \in {1, 10}, max_labels \in {1, 3} :
             \E scores \in [1..Len(build_l2_nodes(taxonomy)) -> Bm25Scores] :
                last = [op |-> "bm25_request", taxonomy |-> taxonomy,
                        scores |-> scores, topk |-> topk, max_labels |-> max_labels]
    /\ loader = Idle
    /\ ServiceIdle

(* extract_anchors_bm25 under its default topk, max_ngram and min_chars *)
ExtractAnchors ==
    /\ last.op = "extract_request"
    /\ LET r == extract_anchors_bm25(last.text, last.lang, 30, 3, 4)
       IN  last' = [op |-> "extract", text |-> last.text, lang |-> last.lang,
                    raised |-> r.raised, cleaned_text |-> r.cleaned_text,
                    anchors |-> r.anchors]
    /\ UNCHANGED <<taxFile, cacheFile, classifier_engine, changed, loader, service>>

(* bm25_classify.py under its default --min-score and --within-best *)
Bm25Classify ==
    /\ last.op = "bm25_request"
    /\ LET r == bm25_classify_main(last.taxonomy, last.scores, last.topk,
                                   last.max_labels, 200, 85)
       IN  last' = [op |-> "bm25_classify", taxonomy |-> last.taxonomy,
                    scores |-> last.scores, raised |-> r.raised,
                    selected |-> r.selected, top_candidates |-> r.top_candidates]
    /\ UNCHANGED <<taxFile, cacheFile, classifier_engine, changed, loader, service>>

NextBm25 == ExtractAnchors \/ Bm25Classify

SpecBm25 == InitBm25 /\ [][NextBm25]_vars

---------------------------------------------------------------------------
(* The anchor miner (main of tools/build_l1_anchors.py).  An article is    *)
(* the words of its title and text and the L1 ids its source maps to; the  *)
(* articles are those main keeps, of a mapped source.  A logarithm is kept *)
(* as the fraction it is taken of, a fraction as <<numerator,              *)
(* denominator>>; the bonus is in hundredths.                              *)

Frac(a, b) == <<a, b>>

(* x / y *)
FracDiv(x, y) == <<x[1] * y[2], x[2] * y[1]>>

(* the two fractions are the same number *)
FracEq(x, y) == x[1] * y[2] = y[1] * x[2]

log_odds(df_in, n_in, df_out, n_out) ==
    LET p_in == Frac(df_in + 1, n_in + 2)
        p_out == Frac(df_out + 1, n_out + 2)
    IN  [ln |-> FracDiv(p_in, p_out)]

MinerTexts == { <<"waterfront", "waterfront">>, <<"waterfront", "plan">> }

L1Ids == {"economy", "sport"}

Articles(n) ==
    UNION {[1..k -> [toks : MinerTexts, l1_ids : SUBSET L1Ids \ {{}}]] : k \in 0..n}

(* l1_docs[l1_id]: the articles of the bucket, as their positions *)
l1_docs(articles, l1_id) == {i \in 1..Len(articles) : l1_id \in articles[i].l1_ids}

(* variant: every n-gram of the document *)
SeenNGramsUnfiltered(toks, lang, max_ngram, min_chars) ==
    {NGramAt(toks, ik) : ik \in NGramStarts(toks, max_ngram)}

(* the n-grams of a document that are counted: `seen` *)
SeenNGrams(toks, lang, max_ngram, min_chars) ==
    {ng \in {NGramAt(toks, ik) : ik \in NGramStarts(toks, max_ngram)} :
        /\ miner_valid_phrase(ng, lang, min_chars).ok
        /\ ~(Len(ng) <= 2 /\ \E i \in 1..Len(ng) : ng[i] \in Stop(lang))}

RECURSIVE SumOver(_, _)
SumOver(S, f) ==
    IF S = {} THEN 0
    ELSE LET x == CHOOSE y \in S : TRUE IN f[x] + SumOver(S \ {x}, f)

(* e^(0.08 * d) for d = 0..3, in units of 1/100000 *)
ExpBonus == <<100000, 108329, 117351, 127125>>

(* a.score > b.score, for scores ln(x) + bonus *)
ScoreGreater(a, b) ==
    LET x == a.score.ln[1] * b.score.ln[2]
        y == b.score.ln[1] * a.score.ln[2]
        d == (b.score.bonus - a.score.bonus) \div 8
    IN  IF d >= 0 THEN x * ExpBonus[1] > y * ExpBonus[d + 1]
        ELSE y * ExpBonus[1] < x * ExpBonus[1 - d]

(* variant: the candidates left as they stand *)
RECURSIVE AnyOrders(_)
AnyOrders(S) ==
    IF S = {} THEN {<<>>}
    ELSE UNION {{<<c>> \o t : t \in AnyOrders(S \ {c})} : c \in S}

(* candidates.sort(key=score, reverse=True): the orders the sort can leave *)
(* the candidates in.  Candidates of one score stand in the order of the   *)
(* Counter, which follows the iteration of a set of tuples of strings and  *)
(* so varies from run to run.                                              *)
RECURSIVE SortedOrders(_)
SortedOrders(S) ==
    IF S = {} THEN {<<>>}
    ELSE UNION {{<<c>> \o t : t \in SortedOrders(S \ {c})} :
                   c \in {x \in S : \A y \in S : ~ScoreGreater(y, x)}}

(* the sort in every bucket: the functions from a bucket to one order of   *)
(* its candidates                                                          *)
RECURSIVE SortedBuckets(_)
SortedBuckets(candidates) ==
    IF DOMAIN candidates = {} THEN {<<>>}
    ELSE LET l1 == CHOOSE x \in DOMAIN candidates : TRUE
             rest == SortedBuckets([x \in DOMAIN candidates \ {l1} |-> candidates[x]])
         IN  {(l1 :> o) @@ t : o \in SortedOrders(candidates[l1]), t \in rest}

(* main from the buckets on, under one order of the sorted candidates of   *)
(* each bucket.  The rows are given as a set.                              *)
build_l1_anchors_main(articles, lang, max_ngram, min_df, min_chars, min_docs_per_l1, max_candidates_per_l1, max_anchors, sorted) ==
    LET buckets == {l1 \in L1Ids : l1_docs(articles, l1) # {}}
        built == DOMAIN sorted
        kept == [l1 \in built |-> Take(Take(sorted[l1], max_candidates_per_l1), max_anchors)]
    IN  IF buckets = {}
        THEN [raised |-> TRUE, rows |-> {}, patch |-> <<>>]
        ELSE [raised |-> FALSE,
              rows |-> UNION {{kept[l1][i] : i \in 1..Len(kept[l1])} : l1 \in built},
              patch |-> [l1 \in built |-> [i \in 1..Len(kept[l1]) |-> kept[l1][i].phrase]]]

(* a bucket is scored: not `n_in < args.min_docs_per_l1` *)
BucketScored(n_in, min_docs_per_l1) == n_in >= min_docs_per_l1

(* variant: every phrase of the Counter is a candidate *)
DfKeptAlways(df_in, min_df) == df_in > 0

(* a phrase of the Counter is a candidate: not `df_in < args.min_df` *)
DfKept(df_in, min_df) == df_in > 0 /\ df_in >= min_df

(* main up to the sort: the candidates of each bucket that is scored *)
Candidates(articles, lang, max_ngram, min_df, min_chars, min_docs_per_l1) ==
    LET buckets == {l1 \in L1Ids : l1_docs(articles, l1) # {}}
        l1_doc_counts == [l1 \in buckets |-> Cardinality(l1_docs(articles, l1))]
        global_docs == SumOver(buckets, l1_doc_counts)
        built == {l1 \in buckets : BucketScored(l1_doc_counts[l1], min_docs_per_l1)}
        seen == UNION {{<<i, ng>> : ng \in SeenNGrams(articles[i].toks, lang, max_ngram,
                                                        min_chars)} :
                          i \in 1..Len(articles)}
        counted == {p[2] : p \in seen}
        l1_df == [l1 \in built |->
                    [ng \in counted |->
                        Cardinality({i \in l1_docs(articles, l1) : <<i, ng>> \in seen})]]
        global_df == [ng \in counted |-> SumOver(built, [l1 \in built |-> l1_df[l1][ng]])]
        Row(l1, ng) ==
            LET n_in == l1_doc_counts[l1]
                n_out == IF global_docs - n_in > 1 THEN global_docs - n_in ELSE 1
                df_in == l1_df[l1][ng]
                df_out == IF global_df[ng] - df_in > 0 THEN global_df[ng] - df_in ELSE 0
            IN  [l1_id |-> l1, phrase |-> ng, df_in |-> df_in, df_out |-> df_out,
                 score |-> [ln |-> log_odds(df_in, n_in, df_out, n_out).ln,
                            bonus |-> 8 * (Len(ng) - 1)]]
    IN  [l1 \in built |->
            {Row(l1, ng) : ng \in {g \in counted : DfKept(l1_df[l1][g], min_df)}}]

(* --min-df, --min-docs-per-l1, --max-candidates-per-l1, --max-anchors *)
MinerArgs ==
    {<<1, 1, 2000, 150>>, <<1, 2, 2000, 150>>, <<2, 1, 2000, 150>>, <<2, 2, 2000, 150>>,
     <<1, 1, 2, 150>>, <<1, 1, 2000, 1>>}

InitMiner ==
    /\ taxFile = [exists |-> FALSE, mtime |-> 1, data |-> TaxEmpty]
    /\ cacheFile = <<>>
    /\ classifier_engine = <<>>
    /\ changed = FALSE
    /\ \/ \E articles \in Articles(MaxDocs), args \in MinerArgs :
             last = [op |-> "miner_request", articles |-> articles, min_df |-> args[1],
                     min_docs_per_l1 |-> args[2], max_candidates_per_l1 |-> args[3],
                     max_anchors |-> args[4]]
       \/ \E df_in \in {0, 10}, n_in \in {1, 50}, df_out \in {0, 2}, n_out \in {1, 500} :
             last = [op |-> "log_odds_request", df_in |-> df_in, n_in |-> n_in,
                     df_out |-> df_out, n_out |-> n_out]
    /\ loader = Idle
    /\ ServiceIdle

(* build_l1_anchors.py --lang en under the default --max-ngram and         *)
(* --min-chars                                                             *)
MineAnchors ==
    /\ last.op = "miner_request"
    /\ LET candidates == Candidates(last.articles, "en", 4, last.min_df, 4,
                                    last.min_docs_per_l1)
       IN  \E sorted \in SortedBuckets(candidates) :
             /\ LET r == build_l1_anchors_main(last.articles, "en", 4, last.min_df, 4,
                                               last.min_docs_per_l1,
                                               last.max_candidates_per_l1,
                                               last.max_anchors, sorted)
                IN  last' = [op |-> "miner", articles |-> last.articles,
                             min_df |-> last.min_df,
                             min_docs_per_l1 |-> last.min_docs_per_l1,
                             max_candidates_per_l1 |-> last.max_candidates_per_l1,
                             max_anchors |-> last.max_anchors,
                             candidates |-> candidates,
                             raised |-> r.raised, rows |-> r.rows, patch |-> r.patch]
    /\ UNCHANGED <<taxFile, cacheFile, classifier_engine, changed, loader, service>>

LogOdds ==
    /\ last.op = "log_odds_request"
    /\ last' = [op |-> "log_odds", df_in |-> last.df_in, n_in |-> last.n_in,
                df_out |-> last.df_out, n_out |-> last.n_out,
                ln |-> log_odds(last.df_in, last.n_in, last.df_out, last.n_out).ln]
    /\ UNCHANGED <<taxFile, cacheFile, classifier_engine, changed, loader, service>>

NextMiner == MineAnchors \/ LogOdds

SpecMiner == InitMiner /\ [][NextMiner]_vars

---------------------------------------------------------------------------
(* select_labels of tools/bm25_classify.py on its own.  The candidates are *)
(* ranked as main ranks them; a candidate's l2_id is its rank.             *)

SelectScores == {-200, 0, 150, 300}

RankedCandidates(n) ==
    UNION {{scored \in [1..k -> [l2_id : 1..k, score : SelectScores]] :
               /\ \A i \in 1..k : scored[i].l2_id = i
               /\ \A i \in 1..(k - 1) : scored[i].score >= scored[i + 1].score} :
             k \in 0..n}

InitSelect ==
    /\ taxFile = [exists |-> FALSE, mtime |-> 1, data |-> TaxEmpty]
    /\ cacheFile = <<>>
    /\ classifier_engine = <<>>
    /\ changed = FALSE
    /\ \E scored \in RankedCandidates(MaxScored), topk \in {1, 2, 10}, max_labels \in {0, 1, 2, 3}, min_score \in {0, 200}, within_best \in {85, 100} :
          last = [op |-> "select_request", scored |-> scored, topk |-> topk,
                  max_labels |-> max_labels, min_score |-> min_score,
                  within_best |-> within_best]
    /\ loader = Idle
    /\ ServiceIdle

SelectLabels ==
    /\ last.op = "select_request"
    /\ last' = [op |-> "select_labels", scored |-> last.scored, topk |-> last.topk,
                max_labels |-> last.max_labels, min_score |-> last.min_score,
                within_best |-> last.within_best,
                chosen |-> select_labels(last.scored, last.topk, last.max_labels,
                                         last.min_score, last.within_best)]
    /\ UNCHANGED <<taxFile, cacheFile, classifier_engine, changed, loader, service>>

NextSelect == SelectLabels

SpecSelect == InitSelect /\ [][NextSelect]_vars

---------------------------------------------------------------------------
(* The merge tool (main of tools/merge_anchor_patch.py).  A category of    *)
(* the taxonomy is its id and its "anchors": absent, a list, or a dict     *)
(* from language to list; a language of the dict is <<>> when absent and   *)
(* <<list>> when present.                                                  *)

MergeCategory(id, anchors_type, en, fr) ==
    [id |-> id, anchors_type |-> anchors_type, en |-> en, fr |-> fr]

MergeCategories ==
    {MergeCategory(id, "absent", <<>>, <<>>) : id \in L1Ids}
    \cup {MergeCategory(id, "list", <<>>, <<>>) : id \in L1Ids}
    \cup {MergeCategory(id, "dict", en, fr) :
             id \in L1Ids,
             en \in {<<>>, << <<"waterfront">> >>, << <<"plan", "waterfront">> >>},
             fr \in {<<>>, << <<"court">> >>}}

MergeTaxonomies(n) == UNION {[1..k -> MergeCategories] : k \in 0..n}

(* patch["anchors"] *)
PatchAnchors ==
    {"economy" :> phrases :
        phrases \in {<<>>, <<"waterfront", "plan">>, <<"plan", "plan", "court">>}}

(* lines 28-33: `existing` after the loop over anchors_map[cid] *)
RECURSIVE Extend(_, _)
Extend(existing, phrases) ==
    IF phrases = <<>> THEN existing
    ELSE IF \E i \in 1..Len(existing) : existing[i] = Head(phrases)
         THEN Extend(existing, Tail(phrases))
         ELSE Extend(Append(existing, Head(phrases)), Tail(phrases))

(* c["anchors"][lang] *)
AnchorsOf(c, lang) == IF lang = "en" THEN c.en ELSE c.fr

(* lines 24-34 for one category named in the patch, whose "anchors" is     *)
(* absent or a dict                                                        *)
MergeInto(c, lang, phrases, replace) ==
    LET existing == IF AnchorsOf(c, lang) = <<>> THEN <<>> ELSE AnchorsOf(c, lang)[1]
        merged == IF replace THEN phrases ELSE Extend(existing, phrases)
    IN  IF lang = "en"
        THEN [c EXCEPT !.anchors_type = "dict", !.en = <<merged>>]
        ELSE [c EXCEPT !.anchors_type = "dict", !.fr = <<merged>>]

(* `.setdefault(lang, [])` on a list raises AttributeError *)
MergeRaises(c, anchors_map) == c.id \in DOMAIN anchors_map /\ c.anchors_type = "list"

(* main: the taxonomy written to --out, none when the run raised *)
merge_anchor_patch_main(tax, lang, anchors_map, replace) ==
    IF \E i \in 1..Len(tax) : MergeRaises(tax[i], anchors_map)
    THEN [raised |-> TRUE, out |-> <<>>]
    ELSE [raised |-> FALSE,
          out |-> << [i \in 1..Len(tax) |->
                        IF tax[i].id \in DOMAIN anchors_map
                        THEN MergeInto(tax[i], lang, anchors_map[tax[i].id], replace)
                        ELSE tax[i]] >>]

InitMerge ==
    /\ taxFile = [exists |-> FALSE, mtime |-> 1, data |-> TaxEmpty]
    /\ cacheFile = <<>>
    /\ classifier_engine = <<>>
    /\ changed = FALSE
    /\ \E tax \in MergeTaxonomies(MaxCats), lang \in Langs, anchors_map \in PatchAnchors, replace \in BOOLEAN :
          last = [op |-> "merge_request", tax |-> tax, lang |-> lang,
                  anchors_map |-> anchors_map, replace |-> replace]
    /\ loader = Idle
    /\ ServiceIdle

MergePatch ==
    /\ last.op = "merge_request"
    /\ LET r == merge_anchor_patch_main(last.tax, last.lang, last.anchors_map, last.replace)
       IN  last' = [op |-> "merge", tax |-> last.tax, lang |-> last.lang,
                    anchors_map |-> last.anchors_map, replace |-> last.replace,
                    raised |-> r.raised, out |-> r.out]
    /\ UNCHANGED <<taxFile, cacheFile, classifier_engine, changed, loader, service>>

NextMerge == MergePatch

SpecMerge == InitMerge /\ [][NextMerge]_vars

---------------------------------------------------------------------------
(* What the claims speak of, computed from the call's inputs.              *)

IsClassify == last.op = "classify"

(* the cleaned text passes the length check *)
PassedLength == last.text.len > 0 /\ last.text.len >= last.min_len

SeenScore(i) == cos_sim(last.text, last.seen[i].centroid)

BestIndexes ==
    {i \in 1..Len(last.seen) : \A j \in 1..Len(last.seen) : SeenScore(j) <= SeenScore(i)}

BestScore == SeenScore(CHOOSE i \in BestIndexes : TRUE)

(* the largest score among the categories other than one best category *)
SecondBestScore ==
    LET b == CHOOSE i \in BestIndexes : TRUE
        rest == (1..Len(last.seen)) \ {b}
    IN  SeenScore(CHOOSE i \in rest : \A j \in rest : SeenScore(j) <= SeenScore(i))

---------------------------------------------------------------------------
(* Claims about classify_text_with_scores, checked under SpecClassify.     *)

(* C1: for a text that passes the length check and a non-empty centroid    *)
(* set, the call accepts (the best-scoring category, confidence = best     *)
(* score, needs_review = false, reason = ok) if and only if best_score >=  *)
(* threshold or the margin is defined and >= margin_threshold; otherwise   *)
(* it returns low_bucket, confidence = best score, needs_review = true,    *)
(* reason = low_confidence.                                                *)
C1_AcceptIffRule ==
    (IsClassify /\ PassedLength /\ last.seen # <<>>) =>
        LET r == last.result
            rule == \/ BestScore >= last.threshold
                    \/ (r.margin # NoneNum /\ r.margin[1] >= last.margin_threshold)
        IN  /\ r.confidence = BestScore
            /\ rule => /\ r.category_id \in {last.seen[i].id : i \in BestIndexes}
                       /\ r.needs_review = FALSE
                       /\ r.reason = "ok"
            /\ ~rule => /\ r.category_id = last.low_bucket
                        /\ r.needs_review = TRUE
                        /\ r.reason = "low_confidence"

(* C1, the case the spec gives: best = 0.40, second = 0.10, threshold =    *)
(* 0.5, margin_threshold = 0.2 has been classified.                        *)
C1_DualAcceptCase ==
    /\ IsClassify /\ PassedLength
    /\ Len(last.seen) = 2
    /\ BestScore = 40 /\ SecondBestScore = 10
    /\ last.threshold = 50 /\ last.margin_threshold = 20
    /\ last.result.needs_review = FALSE

C3_NoEmbeddingOnShortText ==
    IsClassify =>
        /\ ~PassedLength => last.encodes = 0
        /\ last.encodes > 0 => PassedLength

(* C3: a short text was served without the embedder. *)
C3_ShortCallNoEncode ==
    /\ IsClassify
    /\ last.text.len > 0 /\ last.text.len < last.min_len
    /\ last.encodes = 0

(* C9: with an empty category set every call that passes the length check  *)
(* returns low_bucket with needs_review = true, for every threshold and    *)
(* margin threshold, those at or below -1 included.                        *)
C9_EmptySetLowBucket ==
    (IsClassify /\ PassedLength /\ last.seen = <<>>) =>
        /\ last.result.category_id = last.low_bucket
        /\ last.result.needs_review = TRUE

(* C9: an empty engine classified a long text under a threshold below the  *)
(* score sentinel.                                                         *)
C9_EmptySetNegativeThreshold ==
    /\ IsClassify /\ PassedLength
    /\ last.seen = <<>>
    /\ last.threshold < SentinelScore
    /\ last.result.category_id = last.low_bucket

(* C10: in every result that reached scoring, margin = best - second best  *)
(* whenever two or more categories exist, and margin and                   *)
(* runner_up_confidence are null only when fewer than two exist.           *)
C10_MarginDefinedWithTwo ==
    (IsClassify /\ PassedLength) =>
        /\ Len(last.seen) >= 2 =>
              /\ last.result.margin = Some(BestScore - SecondBestScore)
              /\ last.result.runner_up_confidence = Some(SecondBestScore)
        /\ Len(last.seen) < 2 =>
              /\ last.result.margin = NoneNum
              /\ last.result.runner_up_confidence = NoneNum

(* C10: two categories scored, the runner-up at or above zero. *)
C10_TwoCategoriesScored ==
    /\ IsClassify /\ PassedLength
    /\ Len(last.seen) >= 2
    /\ SecondBestScore >= 0
    /\ last.result.margin = Some(BestScore - SecondBestScore)

(* the same call under another threshold *)
UnderThreshold(t) ==
    classify_text_with_scores(last.seen, last.text, t, last.margin_threshold,
                              last.min_len, last.low_bucket).result

(* C11: with the centroids, margin_threshold, min_len and low_bucket       *)
(* fixed, a text accepted (needs_review = false) under a threshold t2 is   *)
(* accepted with the same category_id under every threshold t1 <= t2.      *)
C11_AcceptedUnderLowerThreshold ==
    (IsClassify /\ last.result.needs_review = FALSE) =>
        \A t1 \in Thresholds :
            t1 <= last.threshold =>
                /\ UnderThreshold(t1).needs_review = FALSE
                /\ UnderThreshold(t1).category_id = last.result.category_id

(* C11: a text was accepted by the threshold test alone (its margin fails  *)
(* the margin test) and lower thresholds exist.                            *)
C11_AcceptedByThresholdOnly ==
    /\ IsClassify /\ last.result.needs_review = FALSE
    /\ last.result.confidence >= last.threshold
    /\ last.result.confidence < 50
    /\ (last.result.margin = NoneNum \/ last.result.margin[1] < last.margin_threshold)
    /\ \E t1 \in Thresholds : t1 < last.threshold

(* what the loop leaves in best_category_id, highest_score, second_score *)
Tracked == Scan(ScanInit, last.seen, last.text)

(* C27: for every set of cosine scores in [-1, 1] and every order of the   *)
(* categories, the one pass leaves best_category_id = a category of the    *)
(* largest score, confidence = that score and runner_up_confidence = the   *)
(* second largest score, the largest again when two categories share it.   *)
C27_OnePassBestAndSecond ==
    (IsClassify /\ PassedLength /\ last.seen # <<>>) =>
        /\ \E i \in BestIndexes : Tracked.best_category_id = last.seen[i].id
        /\ last.result.confidence = BestScore
        /\ Len(last.seen) >= 2 => last.result.runner_up_confidence = Some(SecondBestScore)

(* C27: two categories shared the largest score and the runner-up was      *)
(* reported as that score.                                                 *)
C27_TiedBestScored ==
    /\ IsClassify /\ PassedLength
    /\ Len(last.seen) >= 2
    /\ Cardinality(BestIndexes) >= 2
    /\ last.result.runner_up_confidence = Some(BestScore)
    /\ last.result.confidence = BestScore

---------------------------------------------------------------------------
(* Claims about get_classifier_engine, checked under SpecEngine.           *)

(* the objects the calls have returned, the last of each handler *)
ReturnedEngines == {handlers[h].engine : h \in {x \in Handlers : handlers[x].engine # 0}}

(* C28: get_classifier_engine makes the NewsClassifier, and so loads the   *)
(* embedding model, at most once in a process, also when the first calls   *)
(* come from several handlers at once, and every call returns the same     *)
(* object.                                                                 *)
C28_EngineMadeOnce ==
    /\ singleton.made <= 1
    /\ Cardinality(ReturnedEngines) <= 1

(* C28: two handlers are in get_classifier_engine, both past the test of   *)
(* the global, which is still None.                                        *)
C28_TwoHandlersPastTest ==
    /\ \A h \in Handlers : handlers[h].pc = "construct"
    /\ singleton.current = 0

---------------------------------------------------------------------------
(* Claims about sync_entries, checked under SpecSync.                      *)

Running == {r \in Runners : runs[r].pc # "idle"}

StoredIds == {article_table[i].freshrss_id : i \in 1..Len(article_table)}

(* C29: in every run the ids passed to mark_entries_read are ids of        *)
(* entries whose insert the run has committed; a run in which an entry     *)
(* raised marks no entry read; an entry is read only once stored; and no   *)
(* two rows have one freshrss_id.                                          *)
C29_ReadOnlyAfterCommit ==
    /\ \A r \in Running :
          /\ runs[r].marked \subseteq runs[r].committed
          /\ runs[r].committed \subseteq StoredIds
          /\ runs[r].pc = "failed" => runs[r].marked = {}
    /\ feed.read \subseteq StoredIds
    /\ \A i, j \in 1..Len(article_table) :
          article_table[i].freshrss_id = article_table[j].freshrss_id => i = j

(* C29: one run stored an entry and failed on the next, marking nothing;   *)
(* the other run met the stored entry again and marked it read.            *)
C29_ResyncedAfterFailure ==
    \E r1, r2 \in Running :
        /\ runs[r1].pc = "failed" /\ runs[r1].committed = {"e1"}
        /\ runs[r2].pc = "done" /\ runs[r2].marked = {"e1", "e2"}
        /\ Len(article_table) = 2
        /\ feed.read = {"e1", "e2"}

(* C30: an entry whose published value is missing or malformed gets the    *)
(* current time as published_at and is summarized, classified and stored;  *)
(* the run does not abort.                                                 *)
C30_BadDateFallsBackToNow ==
    \A r \in Running :
        (/\ runs[r].handled # <<>>
         /\ runs[r].handled[1].entry.published # "epoch"
         /\ runs[r].handled[1].summarized)
            => /\ ~runs[r].handled[1].raised
               /\ runs[r].pc # "failed"
               /\ runs[r].handled[1].entry.id \in StoredIds

(* C30: a run stored an entry and came to one without a published value,   *)
(* the summary service answering.                                          *)
C30_EntryWithoutDate ==
    \E r \in Running :
        /\ runs[r].handled # <<>>
        /\ runs[r].handled[1].entry.published = "missing"
        /\ runs[r].handled[1].summarized
        /\ runs[r].committed # {}

---------------------------------------------------------------------------
(* Claims about batch classification, checked under SpecBatch.             *)

IsBatch == last.op = "classify_batch"

(* what POST /classify returns for the i-th text of the batch *)
Single(i) ==
    classify_text_with_scores(last.seen, last.texts[i], last.threshold,
                              last.margin_threshold, last.min_len,
                              last.low_bucket).result

(* C14: for any list of texts the batch variant returns a list of the same *)
(* length whose i-th result is what the single-text classification returns *)
(* for the i-th text under the same parameters.                            *)
C14_BatchEqualsSingles ==
    IsBatch =>
        /\ ~last.raised
        /\ Len(last.results) = Len(last.texts)
        /\ \A i \in 1..Len(last.texts) : last.results[i] = Single(i)

(* C14: a batch of two texts with different outcomes, one too short and    *)
(* one accepted, was served in order.                                      *)
C14_MixedBatchServed ==
    /\ IsBatch
    /\ Len(last.texts) = 2
    /\ last.results[1].reason = "no_text"
    /\ last.results[2].reason = "ok"

---------------------------------------------------------------------------
(* Claims about clean_text_rules, checked under SpecClean.                 *)

(* C15: clean_text_rules is idempotent: clean(clean(x)) = clean(x) for     *)
(* every text x, nested markdown links, repeated "Read:" prefixes and a    *)
(* "Read:" prefix before a boilerplate line included.                      *)
C15_CleanIdempotent ==
    last.op = "reclean" => last.recleaned = last.cleaned

(* C15: the line "Read: Read: w" was cleaned twice. *)
C15_RepeatedReadCleanedTwice ==
    /\ last.op = "reclean"
    /\ last.text = <<"Read:", "Read:", "w">>
    /\ last.cleaned = <<"Read:", "w">>
    /\ last.recleaned = <<"w">>

---------------------------------------------------------------------------
(* Claims about valid_phrase, checked under SpecPhrase.                    *)

(* C16: valid_phrase rejects every phrase whose first or last token is a   *)
(* stopword of the language or whose tokens are all stopwords; it is false *)
(* for ["the", "report"], "en", 4 and true for ["waterfront",              *)
(* "redevelopment", "plan"], "en", 4.                                      *)
C16_BoundaryStopwordRejected ==
    last.op = "valid_phrase" =>
        LET p == last.phrase_toks
        IN  /\ (p # <<>> /\ (\/ p[1] \in Stop(last.lang)
                              \/ p[Len(p)] \in Stop(last.lang)
                              \/ \A i \in 1..Len(p) : p[i] \in Stop(last.lang)))
                  => ~last.ok
            /\ (p = <<"the", "report">> /\ last.lang = "en" /\ last.min_chars = 4)
                  => ~last.ok
            /\ (/\ p = <<"waterfront", "redevelopment", "plan">>
                /\ last.lang = "en" /\ last.min_chars = 4)
                  => last.ok

(* C16: a phrase that only its last token, a stopword, makes invalid was   *)
(* judged.                                                                 *)
C16_TrailingStopwordJudged ==
    /\ last.op = "valid_phrase"
    /\ last.phrase_toks = <<"waterfront", "plan", "the">>
    /\ last.lang = "en" /\ last.min_chars = 4
    /\ ~last.ok

(* C17: the numeric-heavy rule fires exactly when at least half of the     *)
(* tokens hold a digit: for a phrase of n tokens of which d hold a digit,  *)
(* it fires if and only if 2*d >= n.                                       *)
C17_NumericHeavyIffHalf ==
    (last.op = "valid_phrase" /\ last.phrase_toks # <<>>) =>
        (last.numeric_heavy <=> 2 * Digits(last.phrase_toks) >= Len(last.phrase_toks))

(* C17: a phrase of three tokens, one of them with a digit and nothing     *)
(* else against it, was judged.                                            *)
C17_OneDigitOfThreeJudged ==
    /\ last.op = "valid_phrase"
    /\ last.phrase_toks = <<"covid-19", "waterfront", "plan">>
    /\ last.lang = "en" /\ last.min_chars = 4
    /\ last.numeric_heavy /\ ~last.ok

(* C18: the valid_phrase of anchor mining and the valid_phrase of anchor   *)
(* extraction give the same verdict for every token sequence, language and *)
(* min_chars, the single-token rule included, and the BM25 query admits    *)
(* only anchor phrases that pass it.                                       *)
C18_SameGateEverywhere ==
    /\ last.op = "miner_valid_phrase" =>
          last.ok = valid_phrase(last.phrase_toks, last.lang, last.min_chars)
    /\ last.op = "build_query" =>
          \A i \in 1..Len(last.top_anchors) :
              valid_phrase(last.top_anchors[i], last.lang, last.min_chars)

(* C18: the miner accepted a single token of five letters. *)
C18_MinerAcceptsFiveLetters ==
    /\ last.op = "miner_valid_phrase"
    /\ last.phrase_toks = <<"court">>
    /\ last.lang = "en" /\ last.min_chars = 4
    /\ last.ok

---------------------------------------------------------------------------
(* Claims about BM25 on degenerate corpora, checked under SpecBm25.        *)

(* no sentence of the text has a token that tokenize keeps *)
NoTokens(text, lang) == tokenize(Words(text), lang) = <<>>

(* no L2 node, or none whose profile has a token *)
NoProfileTokens(taxonomy, lang) ==
    \A i \in 1..Len(build_l2_nodes(taxonomy)) :
        tokenize(build_l2_nodes(taxonomy)[i].profile, lang) = <<>>

(* C19: BM25 over a degenerate corpus never raises: when the document set  *)
(* is empty or no document has a token, anchor extraction returns an empty *)
(* anchors list and the BM25 classification route returns empty score and  *)
(* selection lists instead of aborting.                                    *)
C19_DegenerateCorpusEmptyResult ==
    /\ last.op \in {"extract", "bm25_classify"} => ~last.raised
    /\ (last.op = "extract" /\ NoTokens(last.text, last.lang)) =>
          last.anchors = {}
    /\ (last.op = "bm25_classify" /\ NoProfileTokens(last.taxonomy, "en")) =>
          last.selected = <<>> /\ last.top_candidates = <<>>

(* C19: the BM25 route ran on a taxonomy without any L2 node. *)
C19_RouteOnEmptyTaxonomy ==
    /\ last.op = "bm25_classify"
    /\ build_l2_nodes(last.taxonomy) = <<>>
    /\ last.raised

---------------------------------------------------------------------------
(* Claims about select_labels, checked under SpecSelect.                   *)

(* C26: select_labels returns, in rank order, only candidates of the top   *)
(* topk with score >= min_score and score >= within_best * best_score, and *)
(* at most max_labels of them, for every max_labels >= 0 and every sign of *)
(* the best score.                                                         *)
C26_SelectedWithinFloorsAndCap ==
    last.op = "select_labels" =>
        LET chosen == last.chosen
        IN  /\ \A i \in 1..Len(chosen) :
                  /\ chosen[i].l2_id <= last.topk
                  /\ chosen[i].l2_id \in 1..Len(last.scored)
                  /\ chosen[i] = last.scored[chosen[i].l2_id]
                  /\ chosen[i].score >= last.min_score
                  /\ chosen[i].score * 100 >= last.within_best * last.scored[1].score
            /\ \A i \in 1..(Len(chosen) - 1) : chosen[i].l2_id < chosen[i + 1].l2_id
            /\ Len(chosen) <= last.max_labels

(* C26: select_labels was asked for no label over a candidate above both   *)
(* floors.                                                                 *)
C26_NoLabelAsked ==
    /\ last.op = "select_labels"
    /\ last.max_labels = 0
    /\ last.scored # <<>>
    /\ last.scored[1].score >= last.min_score
    /\ last.scored[1].score > 0

---------------------------------------------------------------------------
(* Claims about the merge tool, checked under SpecMerge.                   *)

(* the phrases of a list that stand at no earlier place of it and not in   *)
(* another list, in their order                                            *)
RECURSIVE NewPhrases(_, _, _)
NewPhrases(phrases, existing, k) ==
    IF k > Len(phrases) THEN <<>>
    ELSE IF \/ \E i \in 1..Len(existing) : existing[i] = phrases[k]
            \/ \E i \in 1..(k - 1) : phrases[i] = phrases[k]
         THEN NewPhrases(phrases, existing, k + 1)
         ELSE <<phrases[k]>> \o NewPhrases(phrases, existing, k + 1)

ExistingAnchors(c, lang) == IF AnchorsOf(c, lang) = <<>> THEN <<>> ELSE AnchorsOf(c, lang)[1]

OtherLang(lang) == IF lang = "en" THEN "fr" ELSE "en"

(* C25: after a merge every category named in the patch has as             *)
(* anchors[lang], in union mode, its list followed by the phrases of the   *)
(* patch not yet present, each once and in the order of the patch, and in  *)
(* replace mode the list of the patch; the other categories and the other  *)
(* languages are unchanged.                                                *)
C25_MergeUnionOrReplace ==
    last.op = "merge" =>
        /\ ~last.raised
        /\ Len(last.out[1]) = Len(last.tax)
        /\ \A i \in 1..Len(last.tax) :
              LET c == last.tax[i]
                  d == last.out[1][i]
              IN  IF c.id \in DOMAIN last.anchors_map
                  THEN /\ AnchorsOf(d, last.lang) =
                            << IF last.replace THEN last.anchors_map[c.id]
                               ELSE ExistingAnchors(c, last.lang)
                                    \o NewPhrases(last.anchors_map[c.id],
                                                  ExistingAnchors(c, last.lang), 1) >>
                       /\ AnchorsOf(d, OtherLang(last.lang)) = AnchorsOf(c, OtherLang(last.lang))
                       /\ d.id = c.id
                  ELSE d = c

(* C25: a union merge met a category named in the patch that held one of   *)
(* the patch's phrases, under a patch with a phrase twice.                 *)
C25_UnionOverExisting ==
    /\ last.op = "merge" /\ ~last.replace /\ last.lang = "en"
    /\ last.anchors_map["economy"] = <<"plan", "plan", "court">>
    /\ \E i \in 1..Len(last.tax) :
          /\ last.tax[i] = MergeCategory("economy", "dict", << <<"plan", "waterfront">> >>, <<>>)
          /\ ~last.raised
          /\ last.out[1][i].en = << <<"plan", "waterfront", "court">> >>

---------------------------------------------------------------------------
(* Claims about the anchor miner, checked under SpecMiner.                 *)

(* the mapped articles inside and outside a category *)
DocsInside(l1) == Cardinality({i \in 1..Len(last.articles) : l1 \in last.articles[i].l1_ids})

DocsOutside(l1) ==
    Cardinality({i \in 1..Len(last.articles) : l1 \notin last.articles[i].l1_ids})

(* ((df_in+1)/(n_in+2)) / ((df_out+1)/(n_out+2)) *)
SmoothedOdds(df_in, n_in, df_out, n_out) ==
    Frac((df_in + 1) * (n_out + 2), (n_in + 2) * (df_out + 1))

(* C20 as the spec words it: the score of every emitted phrase is          *)
(* ln(((df_in+1)/(n_in+2)) / ((df_out+1)/(n_out+2))) + 0.08*(ngram_length  *)
(* - 1) with n_in and n_out the numbers of documents inside and outside    *)
(* the category; df_in=10, n_in=50, df_out=2, n_out=500 gives              *)
(* ln((11/52)/(3/502)).                                                    *)
C20_ScoreOverDocumentCounts ==
    /\ last.op = "miner" =>
          \A r \in last.rows :
              /\ FracEq(r.score.ln, SmoothedOdds(r.df_in, DocsInside(r.l1_id), r.df_out,
                                                 DocsOutside(r.l1_id)))
              /\ r.score.bonus = 8 * (Len(r.phrase) - 1)
    /\ last.op = "log_odds" =>
          /\ FracEq(last.ln, SmoothedOdds(last.df_in, last.n_in, last.df_out,
                                          last.n_out))
          /\ (last.df_in = 10 /\ last.n_in = 50 /\ last.df_out = 2 /\ last.n_out = 500)
                => FracEq(last.ln, FracDiv(Frac(11, 52), Frac(3, 502)))

(* the phrase stands in the words of a document *)
Contains(toks, phrase) ==
    \E k \in 1..Len(toks) :
        k + Len(phrase) - 1 <= Len(toks) /\ SubSeq(toks, k, k + Len(phrase) - 1) = phrase

DocsInsideWith(l1, phrase) ==
    Cardinality({i \in 1..Len(last.articles) :
                    l1 \in last.articles[i].l1_ids /\ Contains(last.articles[i].toks, phrase)})

DocsOutsideWith(l1, phrase) ==
    Cardinality({i \in 1..Len(last.articles) :
                    l1 \notin last.articles[i].l1_ids /\ Contains(last.articles[i].toks, phrase)})

(* C21: for every scored phrase of a category, df_out is the number of     *)
(* documents of the corpus outside the category that contain the phrase,   *)
(* the documents of categories too small to be scored included.            *)
C21_DfOutCountsOutsideDocuments ==
    last.op = "miner" =>
        \A r \in last.rows : r.df_out = DocsOutsideWith(r.l1_id, r.phrase)

(* C21: a phrase was scored for a category while a document with the      *)
(* phrase lies in a category too small to be scored and not in this one.   *)
C21_PhraseInSmallCategory ==
    /\ last.op = "miner"
    /\ last.min_docs_per_l1 = 2
    /\ \E r \in last.rows :
          /\ DocsOutsideWith(r.l1_id, r.phrase) = 1
          /\ \A l1 \in L1Ids \ {r.l1_id} : DocsInside(l1) = 1

C23_PatchAboveFloors ==
    last.op = "miner" =>
        /\ last.raised <=> last.articles = <<>>
        /\ \A l1 \in DOMAIN last.patch :
              /\ DocsInside(l1) >= last.min_docs_per_l1
              /\ \A i \in 1..Len(last.patch[l1]) :
                    DocsInsideWith(l1, last.patch[l1][i]) >= last.min_df

(* C23: a run left a category out of the patch for its one document and a  *)
(* phrase of another category out for its df_in of 1.                      *)
C23_CategoryAndPhraseDropped ==
    /\ last.op = "miner" /\ ~last.raised
    /\ last.min_docs_per_l1 = 2 /\ last.min_df = 2
    /\ \E l1 \in L1Ids : DocsInside(l1) = 1 /\ l1 \notin DOMAIN last.patch
    /\ \E l1 \in DOMAIN last.patch :
          /\ last.patch[l1] # <<>>
          /\ DocsInsideWith(l1, <<"waterfront", "plan">>) = 1

(* the candidate of a bucket with the phrase *)
CandidateOf(l1, phrase) == CHOOSE r \in last.candidates[l1] : r.phrase = phrase

Smaller(a, b) == IF a < b THEN a ELSE b

(* C24: for every category of the patch the phrases stand by               *)
(* non-increasing score, are at most min(max_candidates_per_l1,            *)
(* max_anchors), and no surviving candidate left out scores higher than a  *)
(* phrase of the list.                                                     *)
C24_PatchRankedAndCapped ==
    (last.op = "miner" /\ ~last.raised) =>
        \A l1 \in DOMAIN last.patch :
            LET anchors == last.patch[l1]
                emitted == {anchors[i] : i \in 1..Len(anchors)}
            IN  /\ \A i, j \in 1..Len(anchors) :
                      i < j => ~ScoreGreater(CandidateOf(l1, anchors[j]),
                                             CandidateOf(l1, anchors[i]))
                /\ Len(anchors) <= Smaller(last.max_candidates_per_l1, last.max_anchors)
                /\ emitted \subseteq {r.phrase : r \in last.candidates[l1]}
                /\ \A r \in last.candidates[l1] :
                      r.phrase \notin emitted =>
                          \A i \in 1..Len(anchors) :
                              ~ScoreGreater(r, CandidateOf(l1, anchors[i]))

(* C24: a category with three candidates of different scores got a list    *)
(* cut to one phrase.                                                      *)
C24_ListCut ==
    /\ last.op = "miner" /\ ~last.raised
    /\ \E l1 \in DOMAIN last.patch :
          /\ Cardinality(last.candidates[l1]) = 3
          /\ Len(last.patch[l1]) = 1
          /\ \E r \in last.candidates[l1] :
                ScoreGreater(CandidateOf(l1, last.patch[l1][1]), r)

(* C20: the miner emitted a two-word phrase for a category while another   *)
(* category holds documents with that phrase.                              *)
C20_TwoWordPhraseScored ==
    /\ last.op = "miner"
    /\ \E r \in last.rows :
          /\ Len(r.phrase) = 2 /\ r.score.bonus = 8
          /\ r.df_in = 2 /\ r.df_out = 1
          /\ DocsOutside(r.l1_id) = 1

---------------------------------------------------------------------------
(* Claims about load_taxonomy and the centroid cache, checked under Spec.  *)

IsLoad == last.op \in {"construct", "reload"}

self == classifier_engine[1]

(* the eligible nodes of the file: an id and at least one anchor *)
EligibleNodes(taxonomy_data) ==
    {n \in SeqToSet(Items(taxonomy_data)) : n.id # None /\ AnchorList(n) # <<>>}

EntryOf(cats, id) == cats[CHOOSE i \in 1..Len(cats) : cats[i].id = id]

(* the entry of node n is there and was embedded from n by the live model *)
DerivedFrom(cats, n, model) ==
    /\ n.id \in DictKeys(cats)
    /\ EntryOf(cats, n.id).anchors = AnchorList(n)
    /\ EntryOf(cats, n.id).centroid =
          Centroid(model, <<IF n.label = None THEN n.id ELSE n.label>>
                          \o AnchorList(n))

(* every node of the file that has an id was embedded anew by this load *)
Recomputed ==
    /\ last.encodes = Cardinality({i \in 1..Len(Items(taxFile.data)) :
                                      Items(taxFile.data)[i].id # None})
    /\ \A id \in {n.id : n \in SeqToSet(Items(taxFile.data))} \ {None} :
          EntryOf(self.categories, id).centroid.model = self.model_name

(* the cache file holds what this load computed, under the live configuration *)
CacheOverwritten ==
    cacheFile = << Payload(self.model_name, None, self.taxonomy_path,
                           Some(taxFile.mtime), taxFile.data.version, self.device,
                           self.categories) >>

(* a field of the payload the load read differs from the live value; an    *)
(* absent field differs                                                    *)
StrictMismatch(payload) ==
    \/ PayloadModel(payload) # self.model_name
    \/ payload.taxonomy_path # self.taxonomy_path
    \/ payload.taxonomy_mtime # Some(taxFile.mtime)
    \/ payload.taxonomy_version # taxFile.data.version
    \/ payload.device # self.device

(* a field that is present in the payload differs from the live value *)
PresentMismatch(payload) ==
    \/ PayloadModel(payload) \notin {None, self.model_name}
    \/ payload.taxonomy_path \notin {None, self.taxonomy_path}
    \/ payload.taxonomy_mtime \notin {NoneNum, Some(taxFile.mtime)}
    \/ payload.taxonomy_version \notin {None, taxFile.data.version}
    \/ payload.device \notin {None, self.device}

ReadCache == IsLoad /\ last.found /\ self.centroids_cache # None /\ last.payload # <<>>

C5_ModelChangeForcesRecompute ==
    (/\ ReadCache
     /\ last.payload[1].model_name \notin {None, self.model_name}
     /\ last.payload[1].taxonomy_path = self.taxonomy_path
     /\ last.payload[1].taxonomy_mtime = Some(taxFile.mtime)
     /\ last.payload[1].taxonomy_version = taxFile.data.version
     /\ last.payload[1].device = self.device) =>
        /\ ~last.cache_hit
        /\ Recomputed
        /\ \A n \in SeqToSet(Items(taxFile.data)) :
              (n.id # None /\ Cardinality({i \in 1..Len(Items(taxFile.data)) :
                                  Items(taxFile.data)[i].id = n.id}) = 1)
              => DerivedFrom(self.categories, n, self.model_name)
        /\ last.op = "construct" =>
              \A i \in 1..Len(self.categories) :
                  self.categories[i].centroid.model = self.model_name
        /\ cacheFile # <<>>
        /\ cacheFile[1].model_name = self.model_name
        /\ cacheFile[1].categories = self.categories

(* C5: a process of model MiniLM started on the cache a process of model   *)
(* mpnet wrote for the same taxonomy file.                                 *)
C5_RestartWithOtherModel ==
    /\ ReadCache
    /\ last.op = "construct"
    /\ last.payload[1].model_name = "mpnet" /\ self.model_name = "MiniLM"
    /\ last.payload[1].categories # ForeignCategories
    /\ last.payload[1].categories # <<>>
    /\ last.payload[1].taxonomy_mtime = Some(taxFile.mtime)
    /\ last.payload[1].taxonomy_version = taxFile.data.version
    /\ cacheFile[1].model_name = "MiniLM"

(* C7: once a reload completes after a change of the taxonomy file, the    *)
(* category set is exactly the set of eligible nodes of the current file:  *)
(* a category removed from the file is gone and each remaining centroid is *)
(* derived from the file's label and anchors.                              *)
C7_ReloadReplacesCategories ==
    (last.op = "reload" /\ last.found /\ last.after_change) =>
        /\ DictKeys(self.categories) = {n.id : n \in EligibleNodes(taxFile.data)}
        /\ \A n \in EligibleNodes(taxFile.data) :
              DerivedFrom(self.categories, n, self.model_name)

(* C8: whenever load_taxonomy runs while the taxonomy file does not exist, *)
(* at construction or on reload, the classifier has zero categories        *)
(* afterwards.                                                             *)
C8_MissingFileZeroCategories ==
    (IsLoad /\ ~last.found) => self.categories = <<>>

(* a build: a load at construction that read the file and did not return  *)
(* from the cache, so that self.categories held nothing before the loop    *)
IsBuild == last.op = "construct" /\ last.found /\ ~last.cache_hit

(* C12: after a taxonomy build a node of the file has a centroid if and    *)
(* only if it has an id and at least one anchor; a node with an id and an  *)
(* empty anchor list has none.                                             *)
C12_CentroidIffIdAndAnchor ==
    (IsBuild /\ ~last.raised) =>
        \A n \in SeqToSet(Items(taxFile.data)) :
            n.id \in DictKeys(self.categories) <=> n \in EligibleNodes(taxFile.data)

(* C12: a build embedded a node that has an id and no anchor. *)
C12_LabelOnlyCentroid ==
    /\ IsBuild /\ ~last.raised
    /\ \E n \in SeqToSet(Items(taxFile.data)) :
          /\ n.id # None /\ AnchorList(n) = <<>>
          /\ DerivedFrom(self.categories, n, self.model_name)
          /\ EntryOf(self.categories, n.id).centroid.texts = <<n.label>>

---------------------------------------------------------------------------
(* Claims about malformed anchors, checked under SpecAnchors.              *)

(* the nodes whose anchors are neither a list nor a language map *)
Malformed(taxonomy_data) ==
    {n \in SeqToSet(Items(taxonomy_data)) : n.anchors_type \notin {"list", "dict"}}

(* C13: when a node's anchors are neither a list nor a language map (a     *)
(* string, a number, null), load_taxonomy does not raise: it takes that    *)
(* node's anchors as the empty list and loads every other node.            *)
C13_MalformedAnchorsAsEmpty ==
    (IsLoad /\ last.found /\ ~last.cache_hit /\ Malformed(taxFile.data) # {}) =>
        /\ ~last.raised
        /\ \A n \in SeqToSet(Items(taxFile.data)) :
              n.id # None => DerivedFrom(self.categories, n, self.model_name)

(* C13: a load ran over a file in which a node with an id has a string, a  *)
(* number or null for anchors.                                             *)
C13_MalformedAnchorsLoaded ==
    /\ IsLoad /\ last.found /\ ~last.cache_hit
    /\ \E n \in Malformed(taxFile.data) : n.id # None

---------------------------------------------------------------------------
(* Claims about reload beside classification, checked under SpecConc.      *)

(* the loop of a stepwise load ends in the categories load_taxonomy gives  *)
StepwiseLoadAgrees == last.op = "reload_end" => last.as_atomic

(* C6: a classify call that runs while a reload is under way sees the      *)
(* complete centroid map of before the reload or the complete map of after *)
(* it, never a map in which part of the new taxonomy has been written.     *)
C6_ReadersSeeOldOrNew ==
    (IsClassify /\ loader.pc = "loop") =>
        last.seen \in {loader.old, loader.final}

(* C6: a classification ran inside a reload that rewrites two categories. *)
C6_ClassifiedDuringReload ==
    /\ IsClassify /\ loader.pc = "loop"
    /\ loader.old # loader.final
    /\ last.seen = loader.old

====
